---------------------------- MODULE Spec2Model ----------------------------
(***************************************************************************)
(* State-machine model of the design editor's element/document core:       *)
(* the canvas store (src/unnamed/part_000), the history store              *)
(* (src/unnamed/part_001), the Fabric wrapper FabricCanvas                 *)
(* (src/unnamed/part_003) and the glue in CanvasStage.tsx / EditorShell.tsx *)
(*                                                                         *)
(* The editor store (@/store/editorStore) and the element type defaults    *)
(* (@/types/canvas) are not part of the source tree; the three editor      *)
(* store operations the core calls (createNewProject, updatePage,          *)
(* loadProject) are modelled from their call sites and the specification.  *)
(*                                                                         *)
(* All store operations run to completion on the single UI thread, so each *)
(* is one atomic action.  Work the code defers is explicit state: the      *)
(* setTimeout(0) queue of pushHistory (timers), image loads in flight      *)
(* (pendingLoads) and crop rasterisations in flight (pendingCrops).        *)
(***************************************************************************)
EXTENDS Integers, Sequences, FiniteSets, TLC

VARIABLES
    project,          \* editorStore.project: Null or the project document
    selectedIds,      \* canvasStore.selectedIds
    clipboard,        \* canvasStore.clipboard
    cropMode,         \* canvasStore.cropMode
    cropBounds,       \* canvasStore.cropBounds
    cropElementId,    \* canvasStore.cropElementId
    past,             \* historyStore.past   (oldest -> newest)
    future,           \* historyStore.future (soonest to redo -> furthest)
    maxHistorySize,   \* historyStore.maxHistorySize
    isUndoing,        \* historyStore.isUndoing
    isRedoing,        \* historyStore.isRedoing
    timers,           \* labels of the pushHistory timeouts not yet fired (FIFO)
    canvasReady,      \* FabricCanvas.canvas # null
    canvasObjects,    \* the fabric canvas' objects in paint order; .mapped = held by objectIdMap
    pendingLoads,     \* fabric.Image.fromURL calls of addImage still in flight
    pendingCrops,     \* fabric.Image.fromURL calls of applyCrop still in flight
    failedLoads,      \* ids of image elements whose bitmap load failed
    nextId,           \* number of element ids minted by crypto.randomUUID
    nextEntryId,      \* number of history entry ids minted by crypto.randomUUID
    obs               \* observer: the last operation and what it returned / started from

storeVars   == <<project, selectedIds, clipboard>>
cropVars    == <<cropMode, cropBounds, cropElementId>>
historyVars == <<past, future, maxHistorySize, isUndoing, isRedoing, nextEntryId>>
fabricVars  == <<canvasReady, canvasObjects, pendingLoads, pendingCrops, failedLoads>>
progVars    == <<storeVars, cropVars, historyVars, fabricVars, timers, nextId>>
vars        == <<progVars, obs>>

-----------------------------------------------------------------------------
(* Bounds of the model *)

\* element ids the session may mint
MaxIds == 3
\* history entry ids the session may mint (pushState, undo, redo, jumpToState)
MaxEntries == 2
\* pushHistory timeouts that may be waiting at once
MaxTimers == 1
\* image loads / crop rasterisations that may be in flight at once
MaxPending == 1

\* JS null in a slot that otherwise holds an object, a string, an element id
Null == [null |-> TRUE]
NullStr == "null"
NoId == 0
\* JS undefined is the absence of the key: a record has only the properties
\* that are defined

ElementIds == 1..MaxIds

-----------------------------------------------------------------------------
(* Sequence helpers (Array.prototype.includes / slice / reverse; filter is  *)
(* SelectSeq and map a function constructor, written in place)             *)

Range(s) == {s[i] : i \in 1..Len(s)}

Includes(s, x) == \E i \in 1..Len(s) : s[i] = x

\* Array.prototype.slice(-n) for n >= 1: the last n entries
SliceLast(s, n) == IF Len(s) <= n THEN s ELSE SubSeq(s, Len(s) - n + 1, Len(s))

\* Array.prototype.reverse
Reverse(s) == [i \in 1..Len(s) |-> s[Len(s) + 1 - i]]

Max(S) == CHOOSE m \in S : \A n \in S : n <= m
Min(S) == CHOOSE m \in S : \A n \in S : m <= n
Abs(n) == IF n < 0 THEN -n ELSE n

-----------------------------------------------------------------------------
(* Plain data: JS object spread, JSON round trip *)

EmptyRec == <<>>

\* { ...base, ...partial }: every key of either, partial's value where it has one
\* (spreading undefined adds nothing: pass EmptyRec)
Spread(base, partial) ==
    [k \in (DOMAIN base) \cup (DOMAIN partial) |->
        IF k \in DOMAIN partial THEN partial[k] ELSE base[k]]

\* JSON.stringify(project): the text is represented by the value it denotes.
\* Every value of the document is a string, a number, a boolean, null, an
\* array or an object of those, which JSON text denotes exactly.
JSONStringify(p) == [json |-> p]

JSONParse(text) == text.json

\* JSON.parse(JSON.stringify(el)) of one element (the deep clone of copy, paste, duplicate)
CloneElement(el) == JSONParse(JSONStringify(el))

-----------------------------------------------------------------------------
(* Document model and the editor store operations the core calls *)

\* An element name is the sequence of its space-separated tokens; a token is
\* a word, plain or in parentheses: "Shape (rectangle)" is
\* <<Word("Shape"), Paren("rectangle")>>
Word(w) == [word |-> w, paren |-> FALSE]
Paren(w) == [word |-> w, paren |-> TRUE]

PageId == "page-1"

\* editorStore.createNewProject(): a project with one empty page, which is active
NewProject == [activePageId |-> PageId, pages |-> <<[id |-> PageId, elements |-> <<>>]>>]

\* project.pages.find(p => p.id === project.activePageId), as an index (0: none)
ActivePageIndex(p) ==
    IF \E i \in 1..Len(p.pages) : p.pages[i].id = p.activePageId
    THEN Min({i \in 1..Len(p.pages) : p.pages[i].id = p.activePageId})
    ELSE 0

ElementsOf(p) ==
    IF p = Null THEN <<>>
    ELSE IF ActivePageIndex(p) = 0 THEN <<>>
         ELSE p.pages[ActivePageIndex(p)].elements

getActivePageElements == ElementsOf(project)

\* editorStore.updatePage(pageId, { elements }): replaces that page's element list
updatePage(p, pageId, elements) ==
    [p EXCEPT !.pages = [i \in 1..Len(p.pages) |->
        IF p.pages[i].id = pageId
        THEN [p.pages[i] EXCEPT !.elements = elements]
        ELSE p.pages[i]]]

\* editorStore.loadProject(p): p becomes the live project
loadProject(p) == p

IdsOf(elements) == {elements[i].id : i \in 1..Len(elements)}

\* elements.find(el => el.id === id), as an index (0: undefined)
FindIndex(elements, id) ==
    IF \E i \in 1..Len(elements) : elements[i].id = id
    THEN Min({i \in 1..Len(elements) : elements[i].id = id})
    ELSE 0

\* faulty variant: the first element's zIndex for the greatest
MaxZIndexIsFirst(elements) == IF Len(elements) > 0 THEN elements[1].zIndex ELSE 0

\* elements.length > 0 ? Math.max(...elements.map(e => e.zIndex)) : 0
MaxZIndexOrZero(elements) ==
    IF Len(elements) > 0 THEN Max({elements[i].zIndex : i \in 1..Len(elements)}) ELSE 0

\* createDefaultTransform() / createDefaultStyle() of @/types/canvas
createDefaultTransform ==
    [x |-> 0, y |-> 0, width |-> 100, height |-> 100, scaleX |-> 1, scaleY |-> 1, rotation |-> 0]

createDefaultStyle == [fill |-> NullStr, opacity |-> 1]

-----------------------------------------------------------------------------
(* Render Bridge: FabricCanvas.  canvasObjects is the fabric canvas' object  *)
(* list in paint order; an object's mapped flag says objectIdMap.get(id) is  *)
(* this object.  Bitmaps are named by their source; a source's natural size  *)
(* is the size of the fabric.Image made from it.                             *)

\* options?.transform, options?.style: the property, or nothing to spread
PartOf(options, k) == IF k \in DOMAIN options THEN options[k] ELSE EmptyRec

\* the fabric property each transform field is written to
FabricProp == [left |-> "x", top |-> "y", scaleX |-> "scaleX", scaleY |-> "scaleY",
               angle |-> "rotation"]

\* the properties addText / addShape / addImage set from the element; a
\* property given as undefined is undefined on the object
ObjectProps(el) ==
    Spread(Spread([k \in {f \in DOMAIN FabricProp : FabricProp[f] \in DOMAIN el.transform} |->
                      el.transform[FabricProp[k]]],
                  [k \in {"opacity"} \cap DOMAIN el.style |-> el.style[k]]),
           [id |-> el.id, type |-> el.type,
            selectable |-> el.selectable,
            lockMovement |-> el.locked, lockRotation |-> FALSE, lockScaling |-> FALSE,
            evented |-> TRUE, visible |-> el.visible,
            mapped |-> TRUE])

\* new fabric.IText(...) / new fabric.Rect(...): a text or a shape takes its
\* width and height from the element
FabricObject(el) ==
    Spread(ObjectProps(el),
           [k \in {"width", "height"} \cap DOMAIN el.transform |-> el.transform[k]])

\* the fabric.Image that fabric.Image.fromURL hands to addImage's callback:
\* its width and height are the bitmap's; when the bitmap could not be
\* loaded it has no _element and no size
ImageObject(el, loaded) ==
    Spread(ObjectProps(el),
           [width |-> IF loaded THEN el.src.width ELSE 0,
            height |-> IF loaded THEN el.src.height ELSE 0,
            bitmap |-> loaded])

\* objectIdMap.get(id), as an index into canvasObjects (0: undefined)
MappedIndex(objs, id) ==
    IF \E i \in 1..Len(objs) : objs[i].id = id /\ objs[i].mapped
    THEN Min({i \in 1..Len(objs) : objs[i].id = id /\ objs[i].mapped})
    ELSE 0

MappedIds(objs) == {objs[i].id : i \in {j \in 1..Len(objs) : objs[j].mapped}}

\* canvas.add(obj) followed by objectIdMap.set(id, obj) (also done by the
\* 'object:added' listener): obj is painted last and replaces any object the
\* table held for the id, which stays on the canvas
CanvasAdd(objs, obj) ==
    Append([i \in 1..Len(objs) |->
               IF objs[i].id = obj.id THEN [objs[i] EXCEPT !.mapped = FALSE] ELSE objs[i]],
           obj)

\* FabricCanvas.removeObject(id)
removeObject(objs, ready, id) ==
    IF MappedIndex(objs, id) # 0 /\ ready
    THEN [i \in 1..(Len(objs) - 1) |->
            IF i < MappedIndex(objs, id) THEN objs[i] ELSE objs[i + 1]]
    ELSE objs

\* FabricCanvas.addElement for each of els in turn, as the store calls it
\* (elements.forEach(el => fabricCanvas.addElement(el))): a text or a shape
\* is on the canvas when the call returns; addText/addShape/addImage throw
\* inside the async addElement when the canvas is not initialised, which
\* rejects a promise nobody awaits
RECURSIVE AddSyncObjects(_, _, _)
AddSyncObjects(objs, ready, els) ==
    IF els = <<>> \/ ~ready THEN objs
    ELSE AddSyncObjects(
            IF Head(els).type \in {"text", "shape"}
            THEN CanvasAdd(objs, FabricObject(Head(els)))
            ELSE objs,
            ready, Tail(els))

\* the fabric.Image.fromURL calls addImage starts for the images among els;
\* each remembers the element as it was passed and what its caller does next
StartedLoads(ready, els) ==
    IF ~ready THEN <<>>
    ELSE [i \in 1..Len(SelectSeq(els, LAMBDA e : e.type = "image")) |->
            [el |-> SelectSeq(els, LAMBDA e : e.type = "image")[i], rest |-> <<>>]]

\* [...page.elements].sort((a, b) => a.zIndex - b.zIndex): stable, ascending
RECURSIVE InsertByZ(_, _)
InsertByZ(sorted, el) ==
    IF sorted = <<>> THEN <<el>>
    ELSE IF Head(sorted).zIndex <= el.zIndex
         THEN <<Head(sorted)>> \o InsertByZ(Tail(sorted), el)
         ELSE <<el>> \o sorted

RECURSIVE SortByZ(_)
SortByZ(els) ==
    IF els = <<>> THEN <<>>
    ELSE InsertByZ(SortByZ(SubSeq(els, 1, Len(els) - 1)), els[Len(els)])

\* the loop of loadPage, "for (const element of sortedElements) await
\* this.addElement(element)", from the elements still to add up to the first
\* image, whose load it then awaits: the objects on the canvas at that point
RECURSIVE LoaderObjects(_, _)
LoaderObjects(objs, rest) ==
    IF rest = <<>> \/ Head(rest).type = "image" THEN objs
    ELSE LoaderObjects(CanvasAdd(objs, FabricObject(Head(rest))), Tail(rest))

\* ... and the load it awaits there, if any
RECURSIVE LoaderAwait(_)
LoaderAwait(rest) ==
    IF rest = <<>> THEN <<>>
    ELSE IF Head(rest).type = "image" THEN <<[el |-> Head(rest), rest |-> Tail(rest)]>>
         ELSE LoaderAwait(Tail(rest))

-----------------------------------------------------------------------------
(* History store *)

\* A label is a record: its fixed text and what the template interpolates
\* (`Add ${type}`, `Delete ${n} element(s)`, `Duplicate ${n} element(s)`)
HistoryEntry(id, label, p) == [id |-> id, label |-> label, projectSnapshot |-> JSONStringify(p)]

\* faulty variant: the trim keeps the oldest entries, slice(0, max) for slice(-max)
PushedPastKeepsOldest(oldPast, entry, maxSize) ==
    IF Len(Append(oldPast, entry)) > maxSize
    THEN SubSeq(Append(oldPast, entry), 1, maxSize)
    ELSE Append(oldPast, entry)

\* the body of pushState's set(): append, trim to the newest maxHistorySize
PushedPast(oldPast, entry, maxSize) ==
    IF Len(Append(oldPast, entry)) > maxSize
    THEN SliceLast(Append(oldPast, entry), maxSize)
    ELSE Append(oldPast, entry)

\* Math.max(10, Math.min(200, size))
ClampHistorySize(size) ==
    IF (IF size < 200 THEN size ELSE 200) > 10 THEN (IF size < 200 THEN size ELSE 200) ELSE 10

\* past.findIndex(e => e.id === entryId), as an index (0: -1)
EntryIndex(entries, entryId) ==
    IF \E i \in 1..Len(entries) : entries[i].id = entryId
    THEN Min({i \in 1..Len(entries) : entries[i].id = entryId})
    ELSE 0

-----------------------------------------------------------------------------
(* History store operations *)

\* faulty variant: pushState without "state.future = []"
pushStateKeepsFuture(label) ==
    IF project = Null \/ isUndoing \/ isRedoing
    THEN UNCHANGED <<past, future, nextEntryId>>
    ELSE /\ nextEntryId' = nextEntryId + 1
         /\ past' = PushedPast(past, HistoryEntry(nextEntryId + 1, label, project), maxHistorySize)
         /\ future' = future

\* pushState(label), as every caller runs it
pushState(label) ==
    IF project = Null \/ isUndoing \/ isRedoing
    THEN UNCHANGED <<past, future, nextEntryId>>
    ELSE /\ nextEntryId' = nextEntryId + 1
         /\ past' = PushedPast(past, HistoryEntry(nextEntryId + 1, label, project), maxHistorySize)
         /\ future' = <<>>

\* a direct call of pushState(label), as EditorShell's mount effect makes it
\* with 'Initial state'
PushStateCall(label) ==
    /\ pushState(label)
    /\ UNCHANGED <<storeVars, cropVars, fabricVars, maxHistorySize, isUndoing, isRedoing,
                   timers, nextId>>

\* the callback pushHistory(label) hands to setTimeout(..., 0) runs
TimerFire ==
    /\ timers # <<>>
    /\ timers' = Tail(timers)
    /\ pushState(Head(timers))
    /\ UNCHANGED <<storeVars, cropVars, fabricVars, maxHistorySize, isUndoing, isRedoing, nextId>>

\* faulty variant: undo() without the early return on an empty past: the live
\* state is moved to future although nothing is restored
undoSavesCurrentAnyway ==
    IF project = Null
    THEN UNCHANGED progVars
    ELSE /\ project' = IF past = <<>> THEN project
                       ELSE loadProject(JSONParse(past[Len(past)].projectSnapshot))
         /\ future' = <<HistoryEntry(nextEntryId + 1, [text |-> "Current"], project)>> \o future
         /\ past' = IF past = <<>> THEN past ELSE SubSeq(past, 1, Len(past) - 1)
         /\ nextEntryId' = nextEntryId + 1
         /\ isUndoing' = FALSE
         /\ UNCHANGED <<selectedIds, clipboard, cropVars, fabricVars, maxHistorySize,
                        isRedoing, timers, nextId>>

undo ==
    IF past = <<>> \/ project = Null
    THEN UNCHANGED progVars
    ELSE /\ project' = loadProject(JSONParse(past[Len(past)].projectSnapshot))
         /\ future' = <<HistoryEntry(nextEntryId + 1, [text |-> "Current"], project)>> \o future
         /\ past' = SubSeq(past, 1, Len(past) - 1)
         /\ nextEntryId' = nextEntryId + 1
         /\ isUndoing' = FALSE
         /\ UNCHANGED <<selectedIds, clipboard, cropVars, fabricVars, maxHistorySize,
                        isRedoing, timers, nextId>>

\* faulty variant: redo() without "state.past.push(currentEntry)"
redoDropsCurrent ==
    IF future = <<>> \/ project = Null
    THEN UNCHANGED progVars
    ELSE /\ project' = loadProject(JSONParse(future[1].projectSnapshot))
         /\ past' = past
         /\ future' = Tail(future)
         /\ nextEntryId' = nextEntryId + 1
         /\ isRedoing' = FALSE
         /\ UNCHANGED <<selectedIds, clipboard, cropVars, fabricVars, maxHistorySize,
                        isUndoing, timers, nextId>>

redo ==
    IF future = <<>> \/ project = Null
    THEN UNCHANGED progVars
    ELSE /\ project' = loadProject(JSONParse(future[1].projectSnapshot))
         /\ past' = Append(past, HistoryEntry(nextEntryId + 1, [text |-> "Current"], project))
         /\ future' = Tail(future)
         /\ nextEntryId' = nextEntryId + 1
         /\ isRedoing' = FALSE
         /\ UNCHANGED <<selectedIds, clipboard, cropVars, fabricVars, maxHistorySize,
                        isUndoing, timers, nextId>>

\* undo() as a function of what it reads and writes: the live document and
\* the snapshots of past and of future (soonest to redo first)
UndoStep(h) ==
    IF h.past = <<>> \/ h.project = Null
    THEN h
    ELSE [project |-> loadProject(JSONParse(h.past[Len(h.past)])),
          past |-> SubSeq(h.past, 1, Len(h.past) - 1),
          future |-> <<JSONStringify(h.project)>> \o h.future]

\* k successive undo() calls
RECURSIVE UndoTimes(_, _)
UndoTimes(k, h) == IF k = 0 THEN h ELSE UndoTimes(k - 1, UndoStep(h))

\* faulty variant: the entry jumped to stays on past, slice(0, entryIndex + 1)
jumpToStateKeepsTarget(entryId) ==
    IF EntryIndex(past, entryId) = 0 \/ project = Null
    THEN UNCHANGED progVars
    ELSE /\ project' = loadProject(JSONParse(past[EntryIndex(past, entryId)].projectSnapshot))
         /\ future' = <<HistoryEntry(nextEntryId + 1, [text |-> "Current"], project)>>
                        \o Reverse(SubSeq(past, EntryIndex(past, entryId) + 1, Len(past)))
                        \o future
         /\ past' = SubSeq(past, 1, EntryIndex(past, entryId))
         /\ nextEntryId' = nextEntryId + 1
         /\ UNCHANGED <<selectedIds, clipboard, cropVars, fabricVars, maxHistorySize,
                        isUndoing, isRedoing, timers, nextId>>

jumpToState(entryId) ==
    IF EntryIndex(past, entryId) = 0 \/ project = Null
    THEN UNCHANGED progVars
    ELSE /\ project' = loadProject(JSONParse(past[EntryIndex(past, entryId)].projectSnapshot))
         /\ future' = <<HistoryEntry(nextEntryId + 1, [text |-> "Current"], project)>>
                        \o Reverse(SubSeq(past, EntryIndex(past, entryId) + 1, Len(past)))
                        \o future
         /\ past' = SubSeq(past, 1, EntryIndex(past, entryId) - 1)
         /\ nextEntryId' = nextEntryId + 1
         /\ UNCHANGED <<selectedIds, clipboard, cropVars, fabricVars, maxHistorySize,
                        isUndoing, isRedoing, timers, nextId>>

setMaxHistorySize(size) ==
    /\ maxHistorySize' = ClampHistorySize(size)
    /\ past' = IF Len(past) > ClampHistorySize(size)
               THEN SliceLast(past, ClampHistorySize(size))
               ELSE past
    /\ UNCHANGED <<storeVars, cropVars, fabricVars, future, isUndoing, isRedoing,
                   nextEntryId, timers, nextId>>

-----------------------------------------------------------------------------
(* Application shell *)

\* EditorShell's first effect: createNewProject() when there is no project.
\* (Its second effect pushes 'Initial state' only if a project existed when
\* the shell first rendered, which it does not in a fresh session.)
createNewProject ==
    /\ project = Null
    /\ project' = NewProject
    /\ UNCHANGED <<selectedIds, clipboard, cropVars, historyVars, fabricVars, timers, nextId>>

\* CanvasStage mounts (it is rendered once a project exists): fabricCanvas.init,
\* then the load-page effect calls fabricCanvas.loadPage(activePage).  That
\* effect's dependencies are the active page's id, width and height and
\* isInitialized, so it runs again only when one of those changes.
CanvasStageMount ==
    /\ project # Null
    /\ ~canvasReady
    /\ canvasReady' = TRUE
    /\ canvasObjects' = LoaderObjects(<<>>, SortByZ(getActivePageElements))
    /\ pendingLoads' = LoaderAwait(SortByZ(getActivePageElements))
    /\ UNCHANGED <<storeVars, cropVars, historyVars, pendingCrops, failedLoads, timers, nextId>>

\* FabricCanvas.init(canvasElement, options): the fabric canvas exists from now on
init ==
    /\ ~canvasReady
    /\ canvasReady' = TRUE
    /\ UNCHANGED <<storeVars, cropVars, historyVars, canvasObjects, pendingLoads, pendingCrops,
                   failedLoads, timers, nextId>>

\* FabricCanvas.loadPage(page): clear(), then the loop over the page's elements
\* sorted by zIndex, up to the first image, whose load it awaits; the loads
\* started earlier are still in flight and their callbacks will run
loadPage(page) ==
    /\ canvasObjects' = IF canvasReady
                        THEN LoaderObjects(<<>>, SortByZ(page.elements))
                        ELSE canvasObjects
    /\ pendingLoads' = IF canvasReady
                       THEN pendingLoads \o LoaderAwait(SortByZ(page.elements))
                       ELSE pendingLoads
    /\ UNCHANGED <<storeVars, cropVars, historyVars, canvasReady, pendingCrops, failedLoads,
                   timers, nextId>>

\* the callback of addImage's fabric.Image.fromURL runs with the bitmap:
\* the image object is added; a loadPage awaiting it goes on with its loop
ImageLoaded(i, loaded) ==
    /\ i \in 1..Len(pendingLoads)
    /\ canvasReady
    /\ canvasObjects' = LoaderObjects(
                            CanvasAdd(canvasObjects, ImageObject(pendingLoads[i].el, loaded)),
                            pendingLoads[i].rest)
    /\ pendingLoads' = [j \in 1..(Len(pendingLoads) - 1) |->
                            IF j < i THEN pendingLoads[j] ELSE pendingLoads[j + 1]]
                       \o LoaderAwait(pendingLoads[i].rest)
    /\ failedLoads' = IF loaded THEN failedLoads ELSE failedLoads \cup {pendingLoads[i].el.id}
    /\ UNCHANGED <<storeVars, cropVars, historyVars, canvasReady, pendingCrops, timers, nextId>>

\* the bitmap of a load in flight cannot be fetched or decoded and the callback
\* is never called: nothing is delivered for it
ImageLoadFails(i) ==
    /\ i \in 1..Len(pendingLoads)
    /\ failedLoads' = failedLoads \cup {pendingLoads[i].el.id}
    /\ pendingLoads' = [j \in 1..(Len(pendingLoads) - 1) |->
                            IF j < i THEN pendingLoads[j] ELSE pendingLoads[j + 1]]
    /\ UNCHANGED <<storeVars, cropVars, historyVars, canvasReady, canvasObjects, pendingCrops,
                   timers, nextId>>

-----------------------------------------------------------------------------
(* Canvas store: element CRUD *)

\* select(id, addToSelection) with id an array of ids: the ids replace the
\* selection, or those not yet selected are pushed onto it
select(ids, addToSelection) ==
    /\ selectedIds' = IF addToSelection
                      THEN selectedIds \o SelectSeq(ids, LAMBDA i : ~Includes(selectedIds, i))
                      ELSE ids
    /\ UNCHANGED <<project, clipboard, cropVars, historyVars, fabricVars, timers, nextId>>

\* the ids of the elements, in page order
IdSeq(elements) == [i \in 1..Len(elements) |-> elements[i].id]

\* faulty variant: selectAll selects every element of the page
selectAllIgnoresLock ==
    /\ selectedIds' = IdSeq(getActivePageElements)
    /\ UNCHANGED <<project, clipboard, cropVars, historyVars, fabricVars, timers, nextId>>

\* selectAll(): the unlocked, selectable elements of the active page
selectAll ==
    /\ selectedIds' = IdSeq(SelectSeq(getActivePageElements,
                                      LAMBDA e : ~e.locked /\ e.selectable))
    /\ UNCHANGED <<project, clipboard, cropVars, historyVars, fabricVars, timers, nextId>>

\* faulty variant: addElement adds the new element to the selection
addElementExtendsSelection(element) ==
    IF project = Null
    THEN UNCHANGED <<project, selectedIds, canvasObjects, pendingLoads, timers>>
    ELSE /\ project' = updatePage(project, project.activePageId,
                                  Append(getActivePageElements, element))
         /\ canvasObjects' = AddSyncObjects(canvasObjects, canvasReady, <<element>>)
         /\ pendingLoads' = pendingLoads \o StartedLoads(canvasReady, <<element>>)
         /\ selectedIds' = Append(selectedIds, element.id)
         /\ timers' = Append(timers, [text |-> "Add", type |-> element.type])

\* addElement(element)
addElement(element) ==
    IF project = Null
    THEN UNCHANGED <<project, selectedIds, canvasObjects, pendingLoads, timers>>
    ELSE /\ project' = updatePage(project, project.activePageId,
                                  Append(getActivePageElements, element))
         /\ canvasObjects' = AddSyncObjects(canvasObjects, canvasReady, <<element>>)
         /\ pendingLoads' = pendingLoads \o StartedLoads(canvasReady, <<element>>)
         /\ selectedIds' = <<element.id>>
         /\ timers' = Append(timers, [text |-> "Add", type |-> element.type])

\* the object literals of addTextElement / addImageElement / addShapeElement:
\* defaults first, "...options" last
TextElement(id, maxZIndex, options) ==
    Spread([id |-> id, type |-> "text", name |-> <<Word("Text")>>,
            transform |-> Spread(createDefaultTransform, PartOf(options, "transform")),
            style |-> Spread(Spread(createDefaultStyle, [fill |-> "#1a1a1a"]), PartOf(options, "style")),
            locked |-> FALSE, visible |-> TRUE, selectable |-> TRUE,
            zIndex |-> maxZIndex + 1],
           options)

ImageElement(id, maxZIndex, src, options) ==
    Spread([id |-> id, type |-> "image", name |-> <<Word("Image")>>, src |-> src, originalSrc |-> src,
            transform |-> Spread(Spread(createDefaultTransform, [width |-> 200, height |-> 200]),
                                 PartOf(options, "transform")),
            style |-> Spread(Spread(createDefaultStyle, [fill |-> NullStr]), PartOf(options, "style")),
            crop |-> Null,
            locked |-> FALSE, visible |-> TRUE, selectable |-> TRUE,
            zIndex |-> maxZIndex + 1],
           options)

ShapeElement(id, maxZIndex, shapeType, options) ==
    Spread([id |-> id, type |-> "shape", name |-> <<Word("Shape"), Paren(shapeType)>>, shapeType |-> shapeType,
            transform |-> Spread(createDefaultTransform, PartOf(options, "transform")),
            style |-> Spread(Spread(createDefaultStyle, [fill |-> "#4A90D9"]), PartOf(options, "style")),
            locked |-> FALSE, visible |-> TRUE, selectable |-> TRUE,
            zIndex |-> maxZIndex + 1],
           options)

addTextElement(options) ==
    /\ nextId' = nextId + 1
    /\ addElement(TextElement(nextId + 1, MaxZIndexOrZero(getActivePageElements), options))
    /\ UNCHANGED <<clipboard, cropVars, historyVars, canvasReady, pendingCrops, failedLoads>>

addImageElement(src, options) ==
    /\ nextId' = nextId + 1
    /\ addElement(ImageElement(nextId + 1, MaxZIndexOrZero(getActivePageElements), src, options))
    /\ UNCHANGED <<clipboard, cropVars, historyVars, canvasReady, pendingCrops, failedLoads>>

addShapeElement(shapeType, options) ==
    /\ nextId' = nextId + 1
    /\ addElement(ShapeElement(nextId + 1, MaxZIndexOrZero(getActivePageElements), shapeType, options))
    /\ UNCHANGED <<clipboard, cropVars, historyVars, canvasReady, pendingCrops, failedLoads>>

\* ids.forEach(id => fabricCanvas.removeObject(id))
RECURSIVE RemoveObjects(_, _, _)
RemoveObjects(objs, ready, ids) ==
    IF ids = <<>> THEN objs
    ELSE RemoveObjects(removeObject(objs, ready, Head(ids)), ready, Tail(ids))

\* faulty variant: removeElement without "state.selectedIds = state.selectedIds.filter(...)"
removeElementKeepsSelection(ids) ==
    IF project = Null
    THEN UNCHANGED <<project, selectedIds, canvasObjects, timers>>
    ELSE /\ canvasObjects' = RemoveObjects(canvasObjects, canvasReady, ids)
         /\ project' = updatePage(project, project.activePageId,
                                  SelectSeq(getActivePageElements, LAMBDA el : ~Includes(ids, el.id)))
         /\ selectedIds' = selectedIds
         /\ timers' = Append(timers, [text |-> "Delete", count |-> Len(ids)])

\* removeElement(ids), as the store and cut run it
removeElementBody(ids) ==
    IF project = Null
    THEN UNCHANGED <<project, selectedIds, canvasObjects, timers>>
    ELSE /\ canvasObjects' = RemoveObjects(canvasObjects, canvasReady, ids)
         /\ project' = updatePage(project, project.activePageId,
                                  SelectSeq(getActivePageElements, LAMBDA el : ~Includes(ids, el.id)))
         /\ selectedIds' = SelectSeq(selectedIds, LAMBDA i : ~Includes(ids, i))
         /\ timers' = Append(timers, [text |-> "Delete", count |-> Len(ids)])

removeElement(ids) ==
    /\ removeElementBody(ids)
    /\ UNCHANGED <<clipboard, cropVars, historyVars, canvasReady, pendingLoads, pendingCrops,
                   failedLoads, nextId>>

\* the spellings /\(Copy\)/i accepts
CopySpellings == {"Copy", "copy", "COPY"}

\* faulty variant: the name is taken as it is, so the suffix stacks
StripCopyNever(name) == name

\* name.replace(/\s*\(Copy\)$/i, ''): one trailing "(Copy)" token is dropped
StripCopy(name) ==
    IF Len(name) > 0 /\ name[Len(name)].paren /\ name[Len(name)].word \in CopySpellings
    THEN SubSeq(name, 1, Len(name) - 1)
    ELSE name

\* faulty variant: the duplicate lies exactly on its original
DuplicateOfInPlace(el, newId) ==
    Spread(CloneElement(el),
           [id |-> newId,
            name |-> StripCopy(el.name) \o <<Paren("Copy")>>])

\* the object literal of duplicateElements' map callback
DuplicateOf(el, newId) ==
    Spread(CloneElement(el),
           [id |-> newId,
            name |-> StripCopy(el.name) \o <<Paren("Copy")>>,
            transform |-> Spread(el.transform,
                                 [x |-> el.transform.x + 20, y |-> el.transform.y + 20])])

\* elementsToDuplicate.map(...) with the ids crypto.randomUUID hands out
DuplicatedElements(elements, targetIds, minted) ==
    [i \in 1..Len(SelectSeq(elements, LAMBDA el : Includes(targetIds, el.id))) |->
        DuplicateOf(SelectSeq(elements, LAMBDA el : Includes(targetIds, el.id))[i], minted + i)]

\* duplicateElements(ids?): args is the argument list, <<>> or <<ids>>
duplicateElements(args) ==
    LET targetIds == IF Len(args) = 0 THEN selectedIds ELSE args[1]
        newElements == DuplicatedElements(getActivePageElements, targetIds, nextId)
    IN  IF Len(targetIds) = 0
        THEN UNCHANGED progVars
        ELSE /\ project' = IF project # Null
                           THEN updatePage(project, project.activePageId,
                                           getActivePageElements \o newElements)
                           ELSE project
             /\ canvasObjects' = AddSyncObjects(canvasObjects, canvasReady, newElements)
             /\ pendingLoads' = pendingLoads \o StartedLoads(canvasReady, newElements)
             /\ selectedIds' = [i \in 1..Len(newElements) |-> newElements[i].id]
             /\ nextId' = nextId + Len(newElements)
             /\ timers' = Append(timers, [text |-> "Duplicate", count |-> Len(newElements)])
             /\ UNCHANGED <<clipboard, cropVars, historyVars, canvasReady, pendingCrops,
                            failedLoads>>

\* faulty variant: the map spreads the updates over every element of the page
UpdatedProjectSpreadsAll(p, id, updates) ==
    IF p = Null THEN p
    ELSE updatePage(p, p.activePageId,
                    [i \in 1..Len(ElementsOf(p)) |-> Spread(ElementsOf(p)[i], updates)])

\* elements.map(el => el.id === id ? { ...el, ...updates } : el), written
\* back with updatePage; nothing without a project
UpdatedProject(p, id, updates) ==
    IF p = Null THEN p
    ELSE updatePage(p, p.activePageId,
                    [i \in 1..Len(ElementsOf(p)) |->
                        IF ElementsOf(p)[i].id = id
                        THEN Spread(ElementsOf(p)[i], updates)
                        ELSE ElementsOf(p)[i]])

\* updateElement(id, updates)
updateElement(id, updates) ==
    /\ project' = UpdatedProject(project, id, updates)
    /\ UNCHANGED <<selectedIds, clipboard, cropVars, historyVars, fabricVars, timers, nextId>>

-----------------------------------------------------------------------------
(* Canvas store: transform, style, z-order, layer operations *)

\* FabricCanvas.updateElementTransform(id, transform)
updateElementTransform(objs, ready, id, transform) ==
    IF MappedIndex(objs, id) = 0 \/ ~ready THEN objs
    ELSE [objs EXCEPT ![MappedIndex(objs, id)] =
            Spread(@, [k \in {f \in DOMAIN FabricProp : FabricProp[f] \in DOMAIN transform} |->
                          transform[FabricProp[k]]])]

\* FabricCanvas.updateElementStyle(id, style)
updateElementStyle(objs, ready, id, style) ==
    IF MappedIndex(objs, id) = 0 \/ ~ready THEN objs
    ELSE [objs EXCEPT ![MappedIndex(objs, id)] =
            Spread(@, [k \in {"opacity", "fill", "stroke", "strokeWidth"} \cap DOMAIN style |->
                          style[k]])]

\* the transform fields updateStoreFromFabric reads off a fabric object
\* ("fabricObject.left ?? el.transform.x": a property the object lacks is skipped)
TransformOf(obj) ==
    [t \in {FabricProp[k] : k \in (DOMAIN FabricProp) \cap (DOMAIN obj)} |->
        obj[CHOOSE k \in DOMAIN FabricProp : FabricProp[k] = t]]

\* faulty variant: the map of updateStoreFromFabric writes the object's
\* position and scale to every element of the page
updateStoreFromFabricWritesAll(p, objs, id) ==
    IF \/ MappedIndex(objs, id) = 0
       \/ p = Null
       \/ FindIndex(ElementsOf(p), id) = 0
    THEN p
    ELSE updatePage(p, p.activePageId,
            [i \in 1..Len(ElementsOf(p)) |->
                Spread(ElementsOf(p)[i],
                       [transform |-> Spread(ElementsOf(p)[i].transform,
                                             TransformOf(objs[MappedIndex(objs, id)]))])])

\* updateStoreFromFabric(id) of CanvasStage, the handler of onObjectModified
\* and onObjectUpdating: the document after it
updateStoreFromFabric(p, objs, id) ==
    IF \/ MappedIndex(objs, id) = 0
       \/ p = Null
       \/ FindIndex(ElementsOf(p), id) = 0
    THEN p
    ELSE UpdatedProject(p, id,
            [transform |-> Spread(ElementsOf(p)[FindIndex(ElementsOf(p), id)].transform,
                                  TransformOf(objs[MappedIndex(objs, id)]))])

\* the user moves, scales or rotates object i of the canvas with the pointer:
\* fabric starts the transform on an object that is visible, evented and
\* selectable and whose lock for that kind of transform is off, writes the
\* new values to the object and fires 'object:moving' / 'object:scaling' /
\* 'object:rotating' and 'object:modified', whose listeners call
\* onObjectUpdating / onObjectModified with the object's data.id
ObjectTransformed(i, gesture) ==
    /\ canvasReady
    /\ i \in 1..Len(canvasObjects)
    /\ canvasObjects[i].visible
    /\ canvasObjects[i].evented
    /\ canvasObjects[i].selectable
    /\ gesture.kind = "moving" => ~canvasObjects[i].lockMovement
    /\ gesture.kind = "rotating" => ~canvasObjects[i].lockRotation
    /\ gesture.kind = "scaling" => ~canvasObjects[i].lockScaling
    /\ canvasObjects' = [canvasObjects EXCEPT ![i] = Spread(@, gesture.set)]
    /\ project' = updateStoreFromFabric(project, canvasObjects', canvasObjects[i].id)
    /\ UNCHANGED <<selectedIds, clipboard, cropVars, historyVars, canvasReady, pendingLoads,
                   pendingCrops, failedLoads, timers, nextId>>

\* faulty variant: the clipboard holds the live elements, not copies of them, so
\* a transform written to an element shows in the clipboard
updateTransformThroughClipboard(id, transform) ==
    IF FindIndex(getActivePageElements, id) # 0
    THEN /\ project' = UpdatedProject(project, id,
                [transform |-> Spread(getActivePageElements[FindIndex(getActivePageElements, id)].transform,
                                      transform)])
         /\ canvasObjects' = updateElementTransform(canvasObjects, canvasReady, id, transform)
         /\ clipboard' = [i \in 1..Len(clipboard) |->
                             IF clipboard[i].id = id
                             THEN [clipboard[i] EXCEPT !.transform = Spread(@, transform)]
                             ELSE clipboard[i]]
         /\ UNCHANGED <<selectedIds, cropVars, historyVars, canvasReady, pendingLoads,
                        pendingCrops, failedLoads, timers, nextId>>
    ELSE UNCHANGED progVars

updateTransform(id, transform) ==
    IF FindIndex(getActivePageElements, id) # 0
    THEN /\ project' = UpdatedProject(project, id,
                [transform |-> Spread(getActivePageElements[FindIndex(getActivePageElements, id)].transform,
                                      transform)])
         /\ canvasObjects' = updateElementTransform(canvasObjects, canvasReady, id, transform)
         /\ UNCHANGED <<selectedIds, clipboard, cropVars, historyVars, canvasReady, pendingLoads,
                        pendingCrops, failedLoads, timers, nextId>>
    ELSE UNCHANGED progVars

updateStyle(id, style) ==
    IF FindIndex(getActivePageElements, id) # 0
    THEN /\ project' = UpdatedProject(project, id,
                [style |-> Spread(getActivePageElements[FindIndex(getActivePageElements, id)].style,
                                  style)])
         /\ canvasObjects' = updateElementStyle(canvasObjects, canvasReady, id, style)
         /\ UNCHANGED <<selectedIds, clipboard, cropVars, historyVars, canvasReady, pendingLoads,
                        pendingCrops, failedLoads, timers, nextId>>
    ELSE UNCHANGED progVars

\* the object list with the object at index from moved to index to
MoveObject(objs, from, to) ==
    [i \in 1..Len(objs) |->
        IF i = to THEN objs[from]
        ELSE IF from < to /\ from <= i /\ i < to THEN objs[i + 1]
        ELSE IF to < from /\ to < i /\ i <= from THEN objs[i - 1]
        ELSE objs[i]]

\* "if (obj && canvas) canvas.bringToFront(obj)" and its three siblings: the
\* object the table holds for id moves to the end / to the start / one step
\* up / one step down in paint order
Restacked(objs, ready, id, to) ==
    IF MappedIndex(objs, id) = 0 \/ ~ready THEN objs
    ELSE MoveObject(objs, MappedIndex(objs, id),
                    CASE to = "front"    -> Len(objs)
                      [] to = "back"     -> 1
                      [] to = "forward"  -> Min({MappedIndex(objs, id) + 1, Len(objs)})
                      [] to = "backward" -> Max({MappedIndex(objs, id) - 1, 1}))

\* faulty variant: bringToFront gives the element the greatest zIndex of the
\* page, not one more
bringToFrontTies(id) ==
    /\ project' = IF getActivePageElements = <<>> THEN project
                  ELSE UpdatedProject(project, id,
                          [zIndex |-> Max({getActivePageElements[i].zIndex :
                                              i \in 1..Len(getActivePageElements)})])
    /\ canvasObjects' = Restacked(canvasObjects, canvasReady, id, "front")
    /\ UNCHANGED <<selectedIds, clipboard, cropVars, historyVars, canvasReady, pendingLoads,
                   pendingCrops, failedLoads, timers, nextId>>

\* Math.max(...[]) is -Infinity and Math.min(...[]) is Infinity; with no
\* element on the page updateElement then has nothing to map
bringToFront(id) ==
    /\ project' = IF getActivePageElements = <<>> THEN project
                  ELSE UpdatedProject(project, id,
                          [zIndex |-> Max({getActivePageElements[i].zIndex :
                                              i \in 1..Len(getActivePageElements)}) + 1])
    /\ canvasObjects' = Restacked(canvasObjects, canvasReady, id, "front")
    /\ UNCHANGED <<selectedIds, clipboard, cropVars, historyVars, canvasReady, pendingLoads,
                   pendingCrops, failedLoads, timers, nextId>>

sendToBack(id) ==
    /\ project' = IF getActivePageElements = <<>> THEN project
                  ELSE UpdatedProject(project, id,
                          [zIndex |-> Min({getActivePageElements[i].zIndex :
                                              i \in 1..Len(getActivePageElements)}) - 1])
    /\ canvasObjects' = Restacked(canvasObjects, canvasReady, id, "back")
    /\ UNCHANGED <<selectedIds, clipboard, cropVars, historyVars, canvasReady, pendingLoads,
                   pendingCrops, failedLoads, timers, nextId>>

bringForward(id) ==
    IF FindIndex(getActivePageElements, id) # 0
    THEN /\ project' = UpdatedProject(project, id,
                [zIndex |-> getActivePageElements[FindIndex(getActivePageElements, id)].zIndex + 1])
         /\ canvasObjects' = Restacked(canvasObjects, canvasReady, id, "forward")
         /\ UNCHANGED <<selectedIds, clipboard, cropVars, historyVars, canvasReady, pendingLoads,
                        pendingCrops, failedLoads, timers, nextId>>
    ELSE UNCHANGED progVars

sendBackward(id) ==
    IF FindIndex(getActivePageElements, id) # 0
    THEN /\ project' = UpdatedProject(project, id,
                [zIndex |-> getActivePageElements[FindIndex(getActivePageElements, id)].zIndex - 1])
         /\ canvasObjects' = Restacked(canvasObjects, canvasReady, id, "backward")
         /\ UNCHANGED <<selectedIds, clipboard, cropVars, historyVars, canvasReady, pendingLoads,
                        pendingCrops, failedLoads, timers, nextId>>
    ELSE UNCHANGED progVars

\* "if (obj && canvas) obj.set({...})" of lockElement (locked = TRUE) and
\* unlockElement (locked = FALSE)
LockedObject(objs, ready, id, locked) ==
    IF MappedIndex(objs, id) = 0 \/ ~ready THEN objs
    ELSE [objs EXCEPT ![MappedIndex(objs, id)] =
            Spread(@, [selectable |-> ~locked, evented |-> ~locked, lockMovement |-> locked,
                       lockRotation |-> locked, lockScaling |-> locked])]

lockElement(id) ==
    /\ project' = UpdatedProject(project, id, [locked |-> TRUE, selectable |-> FALSE])
    /\ canvasObjects' = LockedObject(canvasObjects, canvasReady, id, TRUE)
    /\ selectedIds' = SelectSeq(selectedIds, LAMBDA i : i # id)
    /\ UNCHANGED <<clipboard, cropVars, historyVars, canvasReady, pendingLoads, pendingCrops,
                   failedLoads, timers, nextId>>

unlockElement(id) ==
    /\ project' = UpdatedProject(project, id, [locked |-> FALSE, selectable |-> TRUE])
    /\ canvasObjects' = LockedObject(canvasObjects, canvasReady, id, FALSE)
    /\ UNCHANGED <<selectedIds, clipboard, cropVars, historyVars, canvasReady, pendingLoads,
                   pendingCrops, failedLoads, timers, nextId>>

toggleVisibility(id) ==
    IF FindIndex(getActivePageElements, id) # 0
    THEN /\ project' = UpdatedProject(project, id,
                [visible |-> ~getActivePageElements[FindIndex(getActivePageElements, id)].visible])
         /\ UNCHANGED <<selectedIds, clipboard, cropVars, historyVars, fabricVars, timers, nextId>>
    ELSE UNCHANGED progVars

-----------------------------------------------------------------------------
(* Canvas store: clipboard *)

\* JSON.parse(JSON.stringify(selectedElements)) of copy
CopiedElements(elements, ids) ==
    [i \in 1..Len(SelectSeq(elements, LAMBDA el : Includes(ids, el.id))) |->
        CloneElement(SelectSeq(elements, LAMBDA el : Includes(ids, el.id))[i])]

copy ==
    /\ clipboard' = CopiedElements(getActivePageElements, selectedIds)
    /\ UNCHANGED <<project, selectedIds, cropVars, historyVars, fabricVars, timers, nextId>>

\* cut: copy(), then removeElement(get().selectedIds)
cut ==
    /\ clipboard' = CopiedElements(getActivePageElements, selectedIds)
    /\ removeElementBody(selectedIds)
    /\ UNCHANGED <<cropVars, historyVars, canvasReady, pendingLoads, pendingCrops, failedLoads,
                   nextId>>

\* faulty variant: the pasted element keeps the id of the element it was copied from
PastedElementKeepsId(el, newId, maxZIndex, index) ==
    Spread(CloneElement(el),
           [transform |-> Spread(el.transform,
                                 [x |-> el.transform.x + 20, y |-> el.transform.y + 20]),
            zIndex |-> maxZIndex + index + 1])

\* the object literal of paste's map callback; index counts from 0
PastedElement(el, newId, maxZIndex, index) ==
    Spread(CloneElement(el),
           [id |-> newId,
            transform |-> Spread(el.transform,
                                 [x |-> el.transform.x + 20, y |-> el.transform.y + 20]),
            zIndex |-> maxZIndex + index + 1])

\* faulty variant: the clipboard is pasted last entry first
PastedElementsReversed(clip, minted, maxZIndex) ==
    [i \in 1..Len(clip) |-> PastedElement(clip[Len(clip) + 1 - i], minted + i, maxZIndex, i - 1)]

\* clipboard.map((el, index) => ...), the i-th new id being minted + i
PastedElements(clip, minted, maxZIndex) ==
    [i \in 1..Len(clip) |-> PastedElement(clip[i], minted + i, maxZIndex, i - 1)]

\* faulty variant: paste leaves what it pasted in the clipboard, so the next
\* paste starts from the offset copies
pasteAdvancesClipboard ==
    LET pasted == PastedElements(clipboard, nextId, MaxZIndexOrZero(getActivePageElements))
    IN  IF Len(clipboard) = 0
        THEN UNCHANGED progVars
        ELSE /\ project' = IF project # Null
                           THEN updatePage(project, project.activePageId,
                                           getActivePageElements \o pasted)
                           ELSE project
             /\ canvasObjects' = AddSyncObjects(canvasObjects, canvasReady, pasted)
             /\ pendingLoads' = pendingLoads \o StartedLoads(canvasReady, pasted)
             /\ selectedIds' = [i \in 1..Len(pasted) |-> pasted[i].id]
             /\ nextId' = nextId + Len(pasted)
             /\ clipboard' = pasted
             /\ UNCHANGED <<cropVars, historyVars, canvasReady, pendingCrops, failedLoads, timers>>

paste ==
    LET pasted == PastedElements(clipboard, nextId, MaxZIndexOrZero(getActivePageElements))
    IN  IF Len(clipboard) = 0
        THEN UNCHANGED progVars
        ELSE /\ project' = IF project # Null
                           THEN updatePage(project, project.activePageId,
                                           getActivePageElements \o pasted)
                           ELSE project
             /\ canvasObjects' = AddSyncObjects(canvasObjects, canvasReady, pasted)
             /\ pendingLoads' = pendingLoads \o StartedLoads(canvasReady, pasted)
             /\ selectedIds' = [i \in 1..Len(pasted) |-> pasted[i].id]
             /\ nextId' = nextId + Len(pasted)
             /\ UNCHANGED <<clipboard, cropVars, historyVars, canvasReady, pendingCrops,
                            failedLoads, timers>>

-----------------------------------------------------------------------------
(* Canvas store: crop.  Coordinates are integers; the inputs of the model   *)
(* make every division exact.                                               *)

\* the crop session as cancelCrop, setCropMode(false) and applyCrop's last
\* statement leave it
CropCleared ==
    /\ cropMode' = FALSE
    /\ cropBounds' = Null
    /\ cropElementId' = NoId

\* the bounds setCropMode gives a session on el: the element's scaled box
\* around its centre
InitialCropBounds(el) ==
    [x |-> el.transform.x - ((el.transform.width * Abs(el.transform.scaleX)) \div 2),
     y |-> el.transform.y - ((el.transform.height * Abs(el.transform.scaleY)) \div 2),
     width |-> el.transform.width * Abs(el.transform.scaleX),
     height |-> el.transform.height * Abs(el.transform.scaleY)]

\* the id '': the one string that counts as false in a condition
EmptyStringId == -1

\* setCropMode(enabled, elementId?): args is <<>> or <<elementId>>;
\* "enabled && elementId" fails without an id and with the id ''
setCropMode(enabled, args) ==
    /\ IF enabled /\ Len(args) > 0 /\ args[1] # EmptyStringId
       THEN IF /\ FindIndex(getActivePageElements, args[1]) # 0
               /\ getActivePageElements[FindIndex(getActivePageElements, args[1])].type = "image"
            THEN /\ cropMode' = TRUE
                 /\ cropElementId' = args[1]
                 /\ cropBounds' = InitialCropBounds(
                        getActivePageElements[FindIndex(getActivePageElements, args[1])])
            ELSE UNCHANGED cropVars
       ELSE CropCleared
    /\ UNCHANGED <<storeVars, historyVars, fabricVars, timers, nextId>>

setCropBounds(bounds) ==
    /\ cropBounds' = bounds
    /\ UNCHANGED <<storeVars, cropMode, cropElementId, historyVars, fabricVars, timers, nextId>>

\* faulty variant: cancelCrop also drops the selection
cancelCropDeselects ==
    /\ CropCleared
    /\ selectedIds' = <<>>
    /\ UNCHANGED <<project, clipboard, historyVars, fabricVars, timers, nextId>>

cancelCrop ==
    /\ CropCleared
    /\ UNCHANGED <<storeVars, historyVars, fabricVars, timers, nextId>>

\* "x || d" on a number: d when x is 0 (or undefined)
OrElse(x, d) == IF x = 0 THEN d ELSE x

Sign(x) == IF x >= 0 THEN 1 ELSE -1

\* the rectangle applyCrop cuts out of the bitmap, in bitmap pixels
CropRect(bounds, obj) ==
    [x |-> (bounds.x - (obj.left - ((obj.width * Abs(OrElse(obj.scaleX, 1))) \div 2)))
              \div Abs(OrElse(obj.scaleX, 1)),
     y |-> (bounds.y - (obj.top - ((obj.height * Abs(OrElse(obj.scaleY, 1))) \div 2)))
              \div Abs(OrElse(obj.scaleY, 1)),
     width |-> bounds.width \div Abs(OrElse(obj.scaleX, 1)),
     height |-> bounds.height \div Abs(OrElse(obj.scaleY, 1))]

\* tempCanvas.toDataURL('image/png'): a bitmap of the cut-out's size
CroppedDataUrl(rect) == [name |-> "data:image/png", width |-> rect.width, height |-> rect.height]

\* applyCrop's early returns, in order; ctx is whether getContext('2d') gave a context
CropAborts(ctx) ==
    \/ cropBounds = Null
    \/ cropElementId = NoId
    \/ FindIndex(getActivePageElements, cropElementId) = 0
    \/ getActivePageElements[FindIndex(getActivePageElements, cropElementId)].type # "image"
    \/ MappedIndex(canvasObjects, cropElementId) = 0
    \/ ~canvasObjects[MappedIndex(canvasObjects, cropElementId)].bitmap
    \/ ~ctx

\* applyCrop(): the old image object leaves the canvas, the load of the
\* cut-out starts, the session ends
applyCrop(ctx) ==
    IF CropAborts(ctx)
    THEN UNCHANGED progVars
    ELSE /\ canvasObjects' = [i \in 1..(Len(canvasObjects) - 1) |->
                                IF i < MappedIndex(canvasObjects, cropElementId)
                                THEN canvasObjects[i] ELSE canvasObjects[i + 1]]
         /\ pendingCrops' = Append(pendingCrops,
                [id |-> cropElementId,
                 bounds |-> cropBounds,
                 obj |-> canvasObjects[MappedIndex(canvasObjects, cropElementId)],
                 transform |-> getActivePageElements[
                                   FindIndex(getActivePageElements, cropElementId)].transform])
         /\ CropCleared
         /\ UNCHANGED <<storeVars, historyVars, canvasReady, pendingLoads, failedLoads, timers,
                        nextId>>

\* the fabric.Image applyCrop's callback puts on the canvas
CroppedObject(c) ==
    [id |-> c.id, type |-> "image",
     left |-> c.bounds.x + (c.bounds.width \div 2),
     top |-> c.bounds.y + (c.bounds.height \div 2),
     scaleX |-> Abs(OrElse(c.obj.scaleX, 1)) * Sign(c.obj.scaleX),
     scaleY |-> Abs(OrElse(c.obj.scaleY, 1)) * Sign(c.obj.scaleY),
     angle |-> c.obj.angle, opacity |-> c.obj.opacity,
     selectable |-> TRUE, lockMovement |-> FALSE, lockRotation |-> FALSE, lockScaling |-> FALSE,
     evented |-> TRUE, visible |-> TRUE, mapped |-> TRUE,
     width |-> CropRect(c.bounds, c.obj).width, height |-> CropRect(c.bounds, c.obj).height,
     bitmap |-> TRUE]

\* faulty variant: the cropped element is placed at the crop rectangle's
\* top-left corner, not at its centre
CroppedUpdatesAtCorner(c) ==
    [src |-> CroppedDataUrl(CropRect(c.bounds, c.obj)),
     transform |-> Spread(c.transform,
        [x |-> c.bounds.x, y |-> c.bounds.y,
         width |-> CropRect(c.bounds, c.obj).width,
         height |-> CropRect(c.bounds, c.obj).height,
         scaleX |-> Abs(OrElse(c.obj.scaleX, 1)) * Sign(c.transform.scaleX),
         scaleY |-> Abs(OrElse(c.obj.scaleY, 1)) * Sign(c.transform.scaleY)]),
     crop |-> Null]

\* the updates applyCrop's callback hands to updateElement
CroppedUpdates(c) ==
    [src |-> CroppedDataUrl(CropRect(c.bounds, c.obj)),
     transform |-> Spread(c.transform,
        [x |-> c.bounds.x + (c.bounds.width \div 2),
         y |-> c.bounds.y + (c.bounds.height \div 2),
         width |-> CropRect(c.bounds, c.obj).width,
         height |-> CropRect(c.bounds, c.obj).height,
         scaleX |-> Abs(OrElse(c.obj.scaleX, 1)) * Sign(c.transform.scaleX),
         scaleY |-> Abs(OrElse(c.obj.scaleY, 1)) * Sign(c.transform.scaleY)]),
     crop |-> Null]

\* the callback of applyCrop's fabric.Image.fromURL runs
CropLoaded(i) ==
    /\ i \in 1..Len(pendingCrops)
    /\ canvasObjects' = CanvasAdd(canvasObjects, CroppedObject(pendingCrops[i]))
    /\ project' = UpdatedProject(project, pendingCrops[i].id, CroppedUpdates(pendingCrops[i]))
    /\ timers' = Append(timers, [text |-> "Crop image"])
    /\ pendingCrops' = [j \in 1..(Len(pendingCrops) - 1) |->
                            IF j < i THEN pendingCrops[j] ELSE pendingCrops[j + 1]]
    /\ UNCHANGED <<selectedIds, clipboard, cropVars, historyVars, canvasReady, pendingLoads,
                   failedLoads, nextId>>

-----------------------------------------------------------------------------
(* Specifications *)

\* The observer records the operation that ran last and what the properties
\* below need of the state it started from.  No operation reads it.
Obs0 ==
    [op |-> "init", prev |-> "init", recorded |-> FALSE, discarded |-> FALSE, noop |-> FALSE,
     run |-> <<>>, phase |-> "none", A |-> Null, B |-> Null, restored |-> FALSE,
     changed |-> FALSE, missing |-> FALSE, before |-> Null, edits |-> 0, aborted |-> FALSE,
     pruned |-> FALSE, undos |-> 0, synced |-> FALSE, copied |-> <<>>, entry |-> 0]

\* the stores as constructed; no project, the Fabric canvas not initialised
Init ==
    /\ project = Null
    /\ selectedIds = <<>>
    /\ clipboard = <<>>
    /\ cropMode = FALSE
    /\ cropBounds = Null
    /\ cropElementId = NoId
    /\ past = <<>>
    /\ future = <<>>
    /\ maxHistorySize = 50
    /\ isUndoing = FALSE
    /\ isRedoing = FALSE
    /\ timers = <<>>
    /\ canvasReady = FALSE
    /\ canvasObjects = <<>>
    /\ pendingLoads = <<>>
    /\ pendingCrops = <<>>
    /\ failedLoads = {}
    /\ nextId = 0
    /\ nextEntryId = 0
    /\ obs = Obs0

Ran(name) == obs' = [Obs0 EXCEPT !.op = name]

\* the step stays within the bounds: ids and entries minted, timeouts and
\* loads waiting (every timeout scheduled can still record its entry)
RoomFor(ids, entries) ==
    /\ nextId' <= ids
    /\ Len(timers') <= MaxTimers
    /\ nextEntryId' + Len(timers') <= entries
    /\ Len(pendingLoads') <= MaxPending
    /\ Len(pendingCrops') <= MaxPending

Room == RoomFor(MaxIds, MaxEntries)

ImageSources == {[name |-> "a.png", width |-> 200, height |-> 200]}
ShapeTypes == {"rectangle"}

\* argument lists of an operation with an optional list of ids
OptionalIds == {<<>>} \cup {<< <<id>> >> : id \in ElementIds}

\* obs of addTextElement / addImageElement / addShapeElement: the document
\* and the selection the call started from, and the id it returns
Added(name) ==
    obs' = [Obs0 EXCEPT !.op = name,
                        !.before = [project |-> project, selectedIds |-> selectedIds],
                        !.A = nextId']

AddOps == {"addTextElement", "addImageElement", "addShapeElement"}

(* Spec: a session of the element store's create / remove / duplicate /      *)
(* clipboard operations, with the deferred work they start *)
Next ==
    \/ createNewProject /\ Ran("createNewProject")
    \/ CanvasStageMount /\ Ran("CanvasStageMount")
    \/ TimerFire /\ Ran("pushState")
    \/ \E i \in 1..MaxPending, loaded \in BOOLEAN : ImageLoaded(i, loaded) /\ Ran("ImageLoaded")
    \/ \E i \in 1..MaxPending : ImageLoadFails(i) /\ Ran("ImageLoadFails")
    \/ addTextElement(EmptyRec) /\ Room /\ Added("addTextElement")
    \/ \E src \in ImageSources : addImageElement(src, EmptyRec) /\ Room /\ Added("addImageElement")
    \/ \E st \in ShapeTypes : addShapeElement(st, EmptyRec) /\ Room /\ Added("addShapeElement")
    \/ \E id \in ElementIds :
          /\ removeElement(<<id>>)
          /\ Room
          /\ obs' = [Obs0 EXCEPT !.op = "removeElement",
                                 !.pruned = Len(selectedIds') < Len(selectedIds)]
    \/ \E args \in OptionalIds : duplicateElements(args) /\ Room /\ Ran("duplicateElements")
    \/ copy /\ Ran("copy")
    \/ cut /\ Room /\ Ran("cut")
    \/ paste /\ Room /\ Ran("paste")

Spec == Init /\ [][Next]_vars

\* C2: after any sequence of addTextElement / addImageElement /
\* addShapeElement, removeElement, duplicateElements, cut and paste on a
\* loaded project, every selected id is the id of an element of the active
\* page; removeElement takes the ids it removes out of the selection
C2_SelectionWithinPage ==
    project # Null => Range(selectedIds) \subseteq IdsOf(getActivePageElements)

\* a selected element was removed while other elements stay on the page
C2_Witness ==
    /\ obs.op = "removeElement"
    /\ obs.pruned
    /\ Len(getActivePageElements) > 0

\* C9: when the image load started by addImageElement fails (no bitmap is
\* ever delivered), the active page holds no element for that image
C9_NoPartialCommit ==
    \A id \in failedLoads : id \notin IdsOf(getActivePageElements)

\* C13: addTextElement / addImageElement / addShapeElement without a zIndex
\* override give the new element the greatest zIndex of the page before the
\* call plus 1, or 1 on an empty page: strictly above every existing element
C13_NewElementOnTop ==
    (obs.op \in AddOps /\ obs.before.project # Null) =>
        LET old == ElementsOf(obs.before.project)
            new == getActivePageElements[Len(getActivePageElements)]
        IN /\ old = <<>> => new.zIndex = 1
           /\ \A i \in 1..Len(old) : old[i].zIndex < new.zIndex
           /\ old # <<>> => \E i \in 1..Len(old) : new.zIndex = old[i].zIndex + 1

\* an element is added to a page that holds two elements, and lands above both
C13_Witness ==
    /\ obs.op \in AddOps
    /\ obs.before.project # Null
    /\ Len(ElementsOf(obs.before.project)) = 2
    /\ getActivePageElements[Len(getActivePageElements)].zIndex = 3

-----------------------------------------------------------------------------
(* SpecPush: the history store driven directly: pushState, undo, redo and   *)
(* setMaxHistorySize in any order on a project that does not change         *)

\* history entry ids a SpecPush session may mint
MaxPushes == 13
\* undo() calls of a SpecPush session that restore a state
MaxUndos == 2

PushLabels == {[text |-> "Initial state"]}
HistorySizes == {5, 300}

\* obs.run: the ids of the entries recorded by the pushState calls made in a
\* row since the last other operation; obs.undos: the undos made so far
NextPush ==
    \/ createNewProject /\ obs' = [Obs0 EXCEPT !.op = "createNewProject", !.undos = obs.undos]
    \/ \E label \in PushLabels :
          /\ PushStateCall(label)
          /\ nextEntryId' <= MaxPushes
          /\ obs' = [Obs0 EXCEPT !.op = "pushState",
                                 !.recorded = nextEntryId' # nextEntryId,
                                 !.discarded = nextEntryId' # nextEntryId /\ future # <<>>,
                                 !.run = IF nextEntryId' # nextEntryId
                                         THEN Append(obs.run, nextEntryId')
                                         ELSE obs.run,
                                 !.undos = obs.undos]
    \/ /\ undo
       /\ nextEntryId' <= MaxPushes
       /\ nextEntryId' # nextEntryId => obs.undos < MaxUndos
       /\ obs' = [Obs0 EXCEPT !.op = "undo",
                              !.noop = project' = project /\ past' = past /\ future' = future,
                              !.undos = IF nextEntryId' # nextEntryId
                                        THEN obs.undos + 1 ELSE obs.undos]
    \/ /\ redo
       /\ nextEntryId' <= MaxPushes
       /\ obs' = [Obs0 EXCEPT !.op = "redo",
                              !.prev = IF obs.op = "pushState" /\ obs.recorded
                                       THEN "pushState" ELSE "other",
                              !.discarded = obs.discarded,
                              !.noop = project' = project /\ past' = past /\ future' = future,
                              !.undos = obs.undos]
    \/ \E size \in HistorySizes :
          /\ setMaxHistorySize(size)
          /\ obs' = [Obs0 EXCEPT !.op = "setMaxHistorySize", !.undos = obs.undos]

SpecPush == Init /\ [][NextPush]_vars

\* C5: whatever the history held before, once maxHistorySize + k states
\* (k >= 0) have been pushed in a row, past holds exactly maxHistorySize
\* entries: the most recently pushed ones, in push order
C5_TrimKeepsNewest ==
    (obs.op = "pushState" /\ Len(obs.run) >= maxHistorySize) =>
        /\ Len(past) = maxHistorySize
        /\ [i \in 1..Len(past) |-> past[i].id] = SliceLast(obs.run, maxHistorySize)

\* more states than maxHistorySize were pushed in a row, on top of a history
\* that was not empty: the oldest pushed state has been discarded
C5_Witness ==
    /\ obs.op = "pushState"
    /\ Len(obs.run) > maxHistorySize
    /\ obs.run[1] > 1

\* C6: a pushState that is not suppressed leaves future empty, so a redo()
\* right after a recorded action changes nothing, whatever was undone before
C6_PushClearsRedo ==
    /\ (obs.op = "pushState" /\ obs.recorded) => future = <<>>
    /\ (obs.op = "redo" /\ obs.prev = "pushState") => obs.noop

\* redo() is called right after a pushState that discarded a redo branch
C6_Witness ==
    /\ obs.op = "redo"
    /\ obs.prev = "pushState"
    /\ obs.discarded

\* C22: undo() called with an empty past, and redo() called with an empty
\* future, change nothing: the document, past, future and the isUndoing /
\* isRedoing flags are what they were
C22_EmptyStackIsNoOp ==
    [][((obs'.op = "undo" /\ past = <<>>) \/ (obs'.op = "redo" /\ future = <<>>)) =>
           UNCHANGED <<project, past, future, isUndoing, isRedoing>>]_vars

\* undo() was called on a loaded project with nothing left to undo while a
\* redo branch existed, and left everything as it was
C22_Witness ==
    /\ obs.op = "undo"
    /\ obs.noop
    /\ project # Null
    /\ past = <<>>
    /\ future # <<>>

\* C29: after any sequence of pushState, undo, redo and setMaxHistorySize,
\* maxHistorySize lies in [10, 200] and past holds at most maxHistorySize
\* entries
C29_PastWithinMaxHistorySize ==
    /\ maxHistorySize >= 10
    /\ maxHistorySize <= 200
    /\ Len(past) <= maxHistorySize

-----------------------------------------------------------------------------
(* SpecUndo: element mutations that record history, and undo / redo /       *)
(* jumpToState over what they recorded                                      *)

\* history entry ids a SpecUndo session may mint
MaxUndoEntries == 4

\* obs of a history-recording mutation: made with no push pending on a loaded
\* project, it starts a round trip from document A to document B
Mutated(name) ==
    obs' = IF timers = <<>> /\ project # Null
           THEN [Obs0 EXCEPT !.op = name, !.phase = "mutated", !.A = project, !.B = project']
           ELSE [Obs0 EXCEPT !.op = name]

\* obs of the deferred pushState: the round trip's mutation is now recorded
Pushed ==
    obs' = IF obs.phase = "mutated"
           THEN [obs EXCEPT !.op = "pushState", !.phase = "pushed"]
           ELSE [Obs0 EXCEPT !.op = "pushState"]

\* the live document and the snapshots of past and of future, in order
HistoryState(p, entries, redoable) ==
    [project |-> p,
     past |-> [i \in 1..Len(entries) |-> entries[i].projectSnapshot],
     future |-> [i \in 1..Len(redoable) |-> redoable[i].projectSnapshot]]

\* obs of undo / redo / jumpToState: the entry id passed to jumpToState (0 for
\* the others), whether a document was restored, whether
\* the render bridge's table mirrored the page before, and the round trip's
\* next phase (undo after the push, redo after that undo)
Restored(name, entry) ==
    LET phase == IF nextEntryId' = nextEntryId THEN "none"
                 ELSE IF name = "undo" /\ obs.phase = "pushed" THEN "undone"
                 ELSE IF name = "redo" /\ obs.phase = "undone" THEN "redone"
                 ELSE "none"
    IN  obs' = [Obs0 EXCEPT !.op = name,
                            !.entry = entry,
                            !.prev = IF name = "redo" /\ obs.op = "undo" /\ obs.restored
                                     THEN "undo" ELSE "init",
                            !.before = IF name = "undo" /\ nextEntryId' # nextEntryId
                                       THEN HistoryState(project, past, future)
                                       ELSE IF name = "redo" /\ obs.op = "undo" /\ obs.restored
                                            THEN obs.before ELSE Null,
                            !.restored = nextEntryId' # nextEntryId,
                            !.synced = canvasReady /\ pendingLoads = <<>> /\
                                       MappedIds(canvasObjects) = IdsOf(getActivePageElements),
                            !.phase = phase,
                            !.A = IF phase = "none" THEN Null ELSE obs.A,
                            !.B = IF phase = "none" THEN Null ELSE obs.B]

RoomUndo == RoomFor(MaxIds, MaxUndoEntries)

NextUndo ==
    \/ createNewProject /\ Ran("createNewProject")
    \/ CanvasStageMount /\ Ran("CanvasStageMount")
    \/ TimerFire /\ Pushed
    \/ addTextElement(EmptyRec) /\ RoomUndo /\ Mutated("addTextElement")
    \/ \E st \in ShapeTypes : addShapeElement(st, EmptyRec) /\ RoomUndo /\ Mutated("addShapeElement")
    \/ \E id \in ElementIds : removeElement(<<id>>) /\ RoomUndo /\ Mutated("removeElement")
    \/ duplicateElements(<<>>) /\ RoomUndo /\ Mutated("duplicateElements")
    \/ undo /\ RoomUndo /\ Restored("undo", 0)
    \/ redo /\ RoomUndo /\ Restored("redo", 0)
    \/ \E e \in 1..MaxUndoEntries : jumpToState(e) /\ RoomUndo /\ Restored("jumpToState", e)

SpecUndo == Init /\ [][NextUndo]_vars

\* C1: a history-recording mutation takes the document from A to B; once its
\* deferred pushState has run, undo() restores a document deep-equal to A and
\* a redo() after that restores a document deep-equal to B
C1_UndoRedoRoundTrip ==
    /\ obs.phase = "undone" => project = obs.A
    /\ obs.phase = "redone" => project = obs.B

\* C3: after undo(), redo() or jumpToState() restores a document, selectedIds
\* holds only ids of elements of the restored active page
C3_SelectionWithinRestoredPage ==
    (obs.op \in {"undo", "redo", "jumpToState"} /\ obs.restored) =>
        Range(selectedIds) \subseteq IdsOf(getActivePageElements)

\* C4: after undo(), redo() or jumpToState() completes (the table mirrored
\* the page before it), the render bridge's id-to-object table holds an object
\* for exactly the elements of the restored active page
C4_TableMirrorsRestoredPage ==
    (obs.op \in {"undo", "redo", "jumpToState"} /\ obs.restored /\ obs.synced) =>
        MappedIds(canvasObjects) = IdsOf(getActivePageElements)

\* C23: jumpToState(entryId), for the entry at index i of past on a loaded
\* project, restores that entry's snapshot, leaves past as its former entries
\* before i, and makes future the pre-jump document, then the former past
\* entries after i (newest first), then the former future; with an entryId
\* that is not in past it changes nothing
C23_JumpSplitsHistoryAtEntry ==
    [][obs'.op = "jumpToState" =>
          /\ \A i \in 1..Len(past) :
                 (past[i].id = obs'.entry /\ project # Null) =>
                    /\ project' = JSONParse(past[i].projectSnapshot)
                    /\ past' = [j \in 1..(i - 1) |-> past[j]]
                    /\ Len(future') = 1 + (Len(past) - i) + Len(future)
                    /\ future'[1].projectSnapshot = JSONStringify(project)
                    /\ \A j \in 1..(Len(past) - i) : future'[1 + j] = past[Len(past) + 1 - j]
                    /\ \A j \in 1..Len(future) : future'[1 + (Len(past) - i) + j] = future[j]
          /\ (\A i \in 1..Len(past) : past[i].id # obs'.entry) =>
                 UNCHANGED <<project, past, future, isUndoing, isRedoing>>]_vars

\* jumpToState() restored an entry that had entries below it and above it
C23_Witness ==
    /\ obs.op = "jumpToState"
    /\ obs.restored
    /\ past # <<>>
    /\ Len(future) >= 2
    /\ future[2].label # [text |-> "Current"]

\* C24: when undo() restored a document while the deferred pushState of an
\* earlier mutation was still pending, that pushState, once it fires, does
\* not empty the future stack undo() populated and does not record the
\* restored document as a new entry of past
C24_PendingPushSparesUndo ==
    [][(obs.op = "undo" /\ obs.restored /\ timers # <<>> /\ obs'.op = "pushState") =>
          /\ future' = future
          /\ past' = past]_vars

\* C30: jumpToState to the entry k positions below the top of past leaves the
\* live document, past and the snapshots of future, in order, as k successive
\* undo() calls from the same state leave them; for the entry at index t of a
\* past of n entries, k is read as n - t (the top being 0 below itself) or as
\* n - t + 1 (the top being the first), whichever agrees; no pushState is
\* pending when the jump is made
C30_JumpEqualsRepeatedUndo ==
    [][(obs'.op = "jumpToState" /\ obs'.restored /\ timers = <<>>) =>
          \A t \in 1..Len(past) :
             past[t].id = obs'.entry =>
                \/ HistoryState(project', past', future') =
                      UndoTimes(Len(past) - t + 1, HistoryState(project, past, future))
                \/ /\ Len(past) - t >= 1
                   /\ HistoryState(project', past', future') =
                         UndoTimes(Len(past) - t, HistoryState(project, past, future))]_vars

\* C31: undo() on a non-empty past immediately followed by redo() leaves the
\* live document as it was, and the snapshots held in past and in future as
\* they were (entry ids and labels aside)
C31_UndoThenRedoIsIdentity ==
    (obs.op = "redo" /\ obs.prev = "undo") =>
        HistoryState(project, past, future) = obs.before

\* redo() ran right after an undo() that had restored the newer of two
\* recorded states
C31_Witness ==
    /\ obs.op = "redo"
    /\ obs.prev = "undo"
    /\ obs.restored
    /\ Len(past) >= 2

-----------------------------------------------------------------------------
(* SpecEdit: the element store's operations on one element, called with the *)
(* id of an element of the page or with an id that is not on the page, with *)
(* or without a project                                                     *)

\* calls of the operations that schedule no history push, per session
MaxEdits == 2
\* element ids a SpecEdit session may mint
MaxEditIds == 2

TransformInputs == {[x |-> 10]}
StyleInputs == {[opacity |-> 0]}
UpdateInputs == {[name |-> <<Word("Renamed")>>]}

\* the id names no element of the active page (there is none without a project)
Missing(id) == id \notin IdsOf(getActivePageElements)

\* obs of an element store operation: whether it changed the page's elements,
\* whether its target was missing, and, for a missing target met with no push
\* pending, the document, the selection and the history it started from
Operated(name, missing, edits) ==
    obs' = [Obs0 EXCEPT !.op = name,
                        !.changed = ElementsOf(project') # ElementsOf(project),
                        !.missing = missing,
                        !.before = IF missing /\ timers = <<>>
                                   THEN [project |-> project, selectedIds |-> selectedIds,
                                         past |-> past, future |-> future]
                                   ELSE Null,
                        !.edits = edits]

RoomEdit == RoomFor(MaxEditIds, MaxEntries)

\* ... of an operation that records history
Recording(name, missing) == RoomEdit /\ Operated(name, missing, obs.edits)

\* ... of an operation that schedules no push
Editing(name, missing) ==
    obs.edits < MaxEdits /\ RoomEdit /\ Operated(name, missing, obs.edits + 1)

NextEdit ==
    \/ createNewProject /\ obs' = [Obs0 EXCEPT !.op = "createNewProject", !.edits = obs.edits]
    \/ CanvasStageMount /\ obs' = [Obs0 EXCEPT !.op = "CanvasStageMount", !.edits = obs.edits]
    \/ TimerFire /\ obs' = obs
    \/ addTextElement(EmptyRec) /\ Recording("addTextElement", FALSE)
    \/ \E id \in ElementIds : removeElement(<<id>>) /\ Recording("removeElement", Missing(id))
    \/ \E id \in ElementIds :
          duplicateElements(<< <<id>> >>) /\ Recording("duplicateElements", Missing(id))
    \/ copy /\ Editing("copy", FALSE)
    \/ paste /\ Editing("paste", project = Null)
    \/ \E id \in ElementIds, updates \in UpdateInputs :
          updateElement(id, updates) /\ Editing("updateElement", Missing(id))
    \/ \E id \in ElementIds, transform \in TransformInputs :
          updateTransform(id, transform) /\ Editing("updateTransform", Missing(id))
    \/ \E id \in ElementIds, style \in StyleInputs :
          updateStyle(id, style) /\ Editing("updateStyle", Missing(id))
    \/ \E id \in ElementIds : bringToFront(id) /\ Editing("bringToFront", Missing(id))
    \/ \E id \in ElementIds : sendToBack(id) /\ Editing("sendToBack", Missing(id))
    \/ \E id \in ElementIds : bringForward(id) /\ Editing("bringForward", Missing(id))
    \/ \E id \in ElementIds : sendBackward(id) /\ Editing("sendBackward", Missing(id))
    \/ \E id \in ElementIds : lockElement(id) /\ Editing("lockElement", Missing(id))
    \/ \E id \in ElementIds : unlockElement(id) /\ Editing("unlockElement", Missing(id))
    \/ \E id \in ElementIds : toggleVisibility(id) /\ Editing("toggleVisibility", Missing(id))

SpecEdit == Init /\ [][NextEdit]_vars

\* C7: every element store operation that changes the active page's elements
\* is followed by a pushState that records the change: once no push is
\* pending, the newest entry of past holds the document as the operation left it
C7_EveryChangeIsRecorded ==
    (obs.changed /\ obs.op # "updateElement" /\ timers = <<>>) =>
        /\ past # <<>>
        /\ JSONParse(past[Len(past)].projectSnapshot) = project

\* C8: an element store operation called with no project, or with an id that
\* is not on the active page, leaves the document, selectedIds and, once the
\* pending pushes have run, the history stacks as they were
C8_MissingTargetIsNoOp ==
    (obs.missing /\ obs.before # Null /\ timers = <<>>) =>
        /\ project = obs.before.project
        /\ selectedIds = obs.before.selectedIds
        /\ past = obs.before.past
        /\ future = obs.before.future

-----------------------------------------------------------------------------
(* SpecCrop: crop sessions on the images of the page, with the image loads  *)
(* and removals that decide whether applyCrop finds what it needs            *)

\* element ids a SpecCrop session may mint
MaxCropIds == 2

\* the rectangles the crop overlay hands to setCropBounds, and null
CropBoundsInputs == {Null, [x |-> 50, y |-> 50, width |-> 100, height |-> 100]}

\* the scales the images are given before they are cropped: mirrored, doubled
CropScales == {[scaleX |-> -2, scaleY |-> 2]}

RoomCrop == RoomFor(MaxCropIds, MaxEntries)

NextCrop ==
    \/ createNewProject /\ Ran("createNewProject")
    \/ CanvasStageMount /\ Ran("CanvasStageMount")
    \/ TimerFire /\ Ran("pushState")
    \/ \E i \in 1..MaxPending, loaded \in BOOLEAN : ImageLoaded(i, loaded) /\ Ran("ImageLoaded")
    \/ \E i \in 1..MaxPending : ImageLoadFails(i) /\ Ran("ImageLoadFails")
    \/ \E src \in ImageSources :
          addImageElement(src, EmptyRec) /\ RoomCrop /\ Ran("addImageElement")
    \/ \E id \in ElementIds : removeElement(<<id>>) /\ RoomCrop /\ Ran("removeElement")
    \/ \E id \in ElementIds : setCropMode(TRUE, <<id>>) /\ Ran("setCropMode")
    \/ setCropMode(FALSE, <<>>) /\ Ran("setCropMode")
    \/ \E bounds \in CropBoundsInputs : setCropBounds(bounds) /\ Ran("setCropBounds")
    \/ cancelCrop /\ Ran("cancelCrop")
    \/ \E ctx \in BOOLEAN :
          /\ applyCrop(ctx)
          /\ RoomCrop
          /\ obs' = [Obs0 EXCEPT !.op = "applyCrop",
                                 !.aborted = CropAborts(ctx),
                                 !.before = [project |-> project, cropMode |-> cropMode]]
    \/ \E i \in 1..MaxPending :
          /\ CropLoaded(i)
          /\ RoomCrop
          /\ obs' = [Obs0 EXCEPT !.op = "CropLoaded", !.A = pendingCrops[i]]
    \/ \E id \in ElementIds, transform \in CropScales :
          updateTransform(id, transform) /\ Ran("updateTransform")

SpecCrop == Init /\ [][NextCrop]_vars

\* C10: when applyCrop, called in a crop session, aborts (bounds missing,
\* element missing or not an image, no render object or bitmap, no 2D
\* context) the document is as it was and the crop session is cleared:
\* cropMode false, cropBounds and cropElementId null
C10_AbortLeavesCleanState ==
    (obs.op = "applyCrop" /\ obs.aborted /\ obs.before.cropMode) =>
        /\ project = obs.before.project
        /\ cropMode = FALSE
        /\ cropBounds = Null
        /\ cropElementId = NoId

\* C11: cropElementId and cropBounds are non-null only while cropMode is true,
\* and both are null after applyCrop or cancelCrop, whatever the order of
\* setCropMode, setCropBounds, applyCrop and cancelCrop
C11_CropSessionOnlyInCropMode ==
    /\ ~cropMode => (cropBounds = Null /\ cropElementId = NoId)
    /\ obs.op \in {"applyCrop", "cancelCrop"} => (cropBounds = Null /\ cropElementId = NoId)

\* C12: after a successful applyCrop with crop rectangle R (world space) the
\* element sits at R's centre, is rendered R.width by R.height
\* (width * |scaleX| by height * |scaleY|), keeps the sign of scaleX and
\* scaleY it had when applyCrop was called, has crop null and has the
\* cut-out bitmap as its src
C12_CropGeometry ==
    (obs.op = "CropLoaded" /\ FindIndex(getActivePageElements, obs.A.id) # 0) =>
        LET el == getActivePageElements[FindIndex(getActivePageElements, obs.A.id)]
            R == obs.A.bounds
        IN /\ 2 * el.transform.x = 2 * R.x + R.width
           /\ 2 * el.transform.y = 2 * R.y + R.height
           /\ el.transform.width * Abs(el.transform.scaleX) = R.width
           /\ el.transform.height * Abs(el.transform.scaleY) = R.height
           /\ Sign(el.transform.scaleX) = Sign(obs.A.transform.scaleX)
           /\ Sign(el.transform.scaleY) = Sign(obs.A.transform.scaleY)
           /\ el.crop = Null
           /\ el.src.name = "data:image/png"
           /\ el.src.width = el.transform.width
           /\ el.src.height = el.transform.height

\* a mirrored, doubled image was cropped to a rectangle smaller than itself
C12_Witness ==
    /\ obs.op = "CropLoaded"
    /\ FindIndex(getActivePageElements, obs.A.id) # 0
    /\ obs.A.transform.scaleX < 0
    /\ obs.A.bounds.width < obs.A.transform.width * Abs(obs.A.transform.scaleX)

\* C25: when the load of an image completes after removeElement took the
\* image off the page, the render bridge's id-to-object table holds no object
\* for its id
C25_RemovedImageStaysOffCanvas ==
    [][obs'.op = "ImageLoaded" =>
          \A i \in 1..Len(pendingLoads) :
             (/\ pendingLoads[i].el.id \notin IdsOf(getActivePageElements)
              /\ \A j \in 1..Len(pendingLoads') : pendingLoads'[j].el.id # pendingLoads[i].el.id)
             => pendingLoads[i].el.id \notin MappedIds(canvasObjects')]_vars

-----------------------------------------------------------------------------
(* SpecOrder: the four z-order operations on the texts of a page, with the   *)
(* canvas mounted before, between or after the elements are added           *)

\* z-order calls per session (each can move a zIndex one further out)
MaxOrderOps == 3
\* history entries a SpecOrder session may record
MaxOrderEntries == 3

\* the zIndex of the element with this id
ZIndexOf(elements, id) == elements[FindIndex(elements, id)].zIndex

\* the paint order agrees with the document: no object of an element of the
\* page is painted above the object of an element with a greater zIndex
PaintAgrees(objs, elements) ==
    \A i, j \in 1..Len(objs) :
        (/\ i < j
         /\ objs[i].mapped /\ objs[j].mapped
         /\ FindIndex(elements, objs[i].id) # 0
         /\ FindIndex(elements, objs[j].id) # 0)
        => ZIndexOf(elements, objs[i].id) <= ZIndexOf(elements, objs[j].id)

RoomOrder == RoomFor(MaxIds, MaxOrderEntries)

\* obs of a step that is no z-order call
Staged(name) == RoomOrder /\ obs' = [Obs0 EXCEPT !.op = name, !.edits = obs.edits]

\* obs of a z-order call on id: the elements it started from, whether id was
\* on the page, and whether id had a render object in a paint order that
\* agreed with the document
Ordered(name, id) ==
    /\ obs.edits < MaxOrderOps
    /\ obs' = [Obs0 EXCEPT !.op = name,
                           !.edits = obs.edits + 1,
                           !.A = getActivePageElements,
                           !.B = id,
                           !.missing = Missing(id),
                           !.synced = /\ MappedIndex(canvasObjects, id) # 0
                                      /\ PaintAgrees(canvasObjects, getActivePageElements)]

NextOrder ==
    \/ createNewProject /\ Staged("createNewProject")
    \/ CanvasStageMount /\ Staged("CanvasStageMount")
    \/ TimerFire /\ Staged("pushState")
    \/ addTextElement(EmptyRec) /\ Staged("addTextElement")
    \/ \E id \in ElementIds : bringToFront(id) /\ Ordered("bringToFront", id)
    \/ \E id \in ElementIds : sendToBack(id) /\ Ordered("sendToBack", id)
    \/ \E id \in ElementIds : bringForward(id) /\ Ordered("bringForward", id)
    \/ \E id \in ElementIds : sendBackward(id) /\ Ordered("sendBackward", id)

SpecOrder == Init /\ [][NextOrder]_vars

\* C14: after bringToFront(id) on an element of the active page, that
\* element's zIndex is strictly greater than every other element's, and no
\* other element changed
C14_FrontIsUniqueMaximum ==
    (obs.op = "bringToFront" /\ ~obs.missing) =>
        /\ Len(getActivePageElements) = Len(obs.A)
        /\ \A i \in 1..Len(obs.A) :
              obs.A[i].id # obs.B =>
                  /\ getActivePageElements[i] = obs.A[i]
                  /\ getActivePageElements[i].zIndex < ZIndexOf(getActivePageElements, obs.B)

\* the lowest of three elements was brought to the front
C14_Witness ==
    /\ obs.op = "bringToFront"
    /\ ~obs.missing
    /\ Len(obs.A) = 3
    /\ \A i \in 1..Len(obs.A) : ZIndexOf(obs.A, obs.B) <= obs.A[i].zIndex

ZOrderOps == {"bringToFront", "sendToBack", "bringForward", "sendBackward"}

\* C15: a z-order operation on an element that has a render object, started
\* where the paint order agrees with the document, ends where it still
\* agrees: no object is painted above the object of an element with a
\* strictly greater zIndex
C15_PaintOrderFollowsZIndex ==
    (obs.op \in ZOrderOps /\ obs.synced) => PaintAgrees(canvasObjects, getActivePageElements)

-----------------------------------------------------------------------------
(* SpecClip: copy, cut and paste among the operations that change the live   *)
(* elements and the history operations that replace the document             *)

\* calls of the operations that mint no id and record no history, per session
MaxClipEdits == 1

RoomClip == RoomFor(MaxIds, MaxEntries)

\* obs keeps, from one copy or cut to the next, the selected elements as they
\* were when copied (copied) and the ids pasted since (run)
Clipped(name, edits) ==
    /\ RoomClip
    /\ obs' = [Obs0 EXCEPT !.op = name, !.copied = obs.copied, !.run = obs.run, !.edits = edits]

\* ... of an operation that mints no id and records no history
ClipEdit(name) == obs.edits < MaxClipEdits /\ Clipped(name, obs.edits + 1)

\* ... of copy and cut
Copied(name) ==
    /\ RoomClip
    /\ obs' = [Obs0 EXCEPT !.op = name,
                           !.copied = SelectSeq(getActivePageElements,
                                                LAMBDA el : Includes(selectedIds, el.id)),
                           !.edits = obs.edits]

\* ... of paste
Pasted ==
    /\ RoomClip
    /\ obs' = [Obs0 EXCEPT !.op = "paste", !.copied = obs.copied, !.edits = obs.edits,
                           !.run = obs.run \o [i \in 1..(nextId' - nextId) |-> nextId + i]]

NextClip ==
    \/ createNewProject /\ Clipped("createNewProject", obs.edits)
    \/ TimerFire /\ Clipped("pushState", obs.edits)
    \/ addTextElement(EmptyRec) /\ Clipped("addTextElement", obs.edits)
    \/ \E id \in ElementIds : removeElement(<<id>>) /\ Clipped("removeElement", obs.edits)
    \/ copy /\ Copied("copy")
    \/ cut /\ Copied("cut")
    \/ paste /\ Pasted
    \/ \E id \in ElementIds, updates \in UpdateInputs :
          updateElement(id, updates) /\ ClipEdit("updateElement")
    \/ \E id \in ElementIds, transform \in TransformInputs :
          updateTransform(id, transform) /\ ClipEdit("updateTransform")
    \/ \E id \in ElementIds, style \in StyleInputs :
          updateStyle(id, style) /\ ClipEdit("updateStyle")
    \/ \E id \in ElementIds : bringToFront(id) /\ ClipEdit("bringToFront")
    \/ \E id \in ElementIds : lockElement(id) /\ ClipEdit("lockElement")
    \/ undo /\ Clipped("undo", obs.edits)
    \/ redo /\ Clipped("redo", obs.edits)

SpecClip == Init /\ [][NextClip]_vars

\* C16: with one element copied, every paste, the second like the first,
\* yields an element at the copied element's (x, y) at copy time plus (20, 20)
C16_PasteOffsetIsFixed ==
    (obs.op = "paste" /\ Len(obs.copied) = 1 /\ project # Null) =>
        LET new == getActivePageElements[Len(getActivePageElements)]
        IN /\ new.id = obs.run[Len(obs.run)]
           /\ new.transform.x = obs.copied[1].transform.x + 20
           /\ new.transform.y = obs.copied[1].transform.y + 20

\* the second paste of one copied element
C16_Witness ==
    /\ obs.op = "paste"
    /\ Len(obs.copied) = 1
    /\ Len(obs.run) = 2
    /\ project # Null

\* C17: the clipboard changes only through copy and cut; no operation on the
\* live elements (updateElement, updateTransform, updateStyle, removeElement,
\* z-order, lock) and no undo or redo changes what was copied
C17_ClipboardChangesOnlyByCopy ==
    [][clipboard' # clipboard => obs'.op \in {"copy", "cut"}]_vars

\* a copied element was moved after the copy: the live element and its copy differ
C17_Witness ==
    /\ obs.op = "updateTransform"
    /\ \E i \in 1..Len(clipboard) :
          /\ FindIndex(getActivePageElements, clipboard[i].id) # 0
          /\ getActivePageElements[FindIndex(getActivePageElements, clipboard[i].id)].transform
                 # clipboard[i].transform

-----------------------------------------------------------------------------
(* SpecName: elements added under a chosen name and duplicated, the          *)
(* duplicate duplicated in turn                                              *)

\* tokens per name given to addTextElement
MaxNameLen == 3
\* history entries a SpecName session may record
MaxNameEntries == 3
\* elements a SpecName session adds by name (the others are duplicates)
MaxNamedAdds == 1

NameTokens == {Word("Foo"), Paren("Copy"), Paren("copy")}

\* the names of at most MaxNameLen tokens
NameInputs == UNION {[1..n -> NameTokens] : n \in 1..MaxNameLen}

RoomName == RoomFor(MaxIds, MaxNameEntries)

\* the name ends in "(Copy)", in any letter case
EndsInCopy(name) ==
    Len(name) > 0 /\ name[Len(name)].paren /\ name[Len(name)].word \in CopySpellings

\* obs of a SpecName step, counting the elements added
Named(name, edits) == RoomName /\ obs' = [Obs0 EXCEPT !.op = name, !.edits = edits]

NextName ==
    \/ createNewProject /\ Named("createNewProject", obs.edits)
    \/ TimerFire /\ Named("pushState", obs.edits)
    \/ \E name \in NameInputs :
          /\ obs.edits < MaxNamedAdds
          /\ addTextElement([name |-> name])
          /\ Named("addTextElement", obs.edits + 1)
    \/ /\ duplicateElements(<<>>)
       /\ RoomName
       /\ obs' = [Obs0 EXCEPT !.op = "duplicateElements",
                              !.edits = obs.edits,
                              !.copied = SelectSeq(getActivePageElements,
                                                   LAMBDA el : Includes(selectedIds, el.id))]

SpecName == Init /\ [][NextName]_vars

-----------------------------------------------------------------------------
(* SpecSelect: select and selectAll on a page whose elements are locked,     *)
(* unlocked and made unselectable                                            *)

\* element ids a SpecSelect session may mint
MaxSelectIds == 2

RoomSelect == RoomFor(MaxSelectIds, MaxEntries)

\* updates that make an element locked or unselectable without lockElement
LayerInputs == {[locked |-> TRUE], [selectable |-> FALSE]}

\* obs of a SpecSelect step on the element id (NoId: on none)
Selected(name, id) == RoomSelect /\ obs' = [Obs0 EXCEPT !.op = name, !.B = id]

NextSelect ==
    \/ createNewProject /\ Selected("createNewProject", NoId)
    \/ TimerFire /\ Selected("pushState", NoId)
    \/ addTextElement(EmptyRec) /\ Selected("addTextElement", NoId)
    \/ \E id \in 1..MaxSelectIds, addToSelection \in BOOLEAN :
          select(<<id>>, addToSelection) /\ Selected("select", id)
    \/ selectAll /\ Selected("selectAll", NoId)
    \/ \E id \in 1..MaxSelectIds : lockElement(id) /\ Selected("lockElement", id)
    \/ \E id \in 1..MaxSelectIds : unlockElement(id) /\ Selected("unlockElement", id)
    \/ \E id \in 1..MaxSelectIds, updates \in LayerInputs :
          updateElement(id, updates) /\ Selected("updateElement", id)

SpecSelect == Init /\ [][NextSelect]_vars

\* C19: after selectAll the selection is exactly the ids of the elements of
\* the active page that are unlocked and selectable, so it holds no locked
\* element; after lockElement(id) the selection does not hold id
C19_SelectAllSkipsLocked ==
    /\ obs.op = "selectAll" =>
          /\ Range(selectedIds) =
                 {getActivePageElements[i].id :
                    i \in {j \in 1..Len(getActivePageElements) :
                              /\ ~getActivePageElements[j].locked
                              /\ getActivePageElements[j].selectable}}
          /\ Cardinality(Range(selectedIds)) = Len(selectedIds)
          /\ \A i \in 1..Len(getActivePageElements) :
                getActivePageElements[i].locked =>
                    getActivePageElements[i].id \notin Range(selectedIds)
    /\ obs.op = "lockElement" => obs.B \notin Range(selectedIds)

\* selectAll on a page with a locked element and an unlocked one
C19_Witness ==
    /\ obs.op = "selectAll"
    /\ selectedIds # <<>>
    /\ \E i \in 1..Len(getActivePageElements) : getActivePageElements[i].locked

-----------------------------------------------------------------------------
(* SpecRace: edits and removals made while the image creation started by    *)
(* applyCrop() is pending                                                   *)

\* element ids a SpecRace session may mint
MaxRaceIds == 2
\* history entry ids a SpecRace session may mint
MaxRaceEntries == 3

RoomRace == RoomFor(MaxRaceIds, MaxRaceEntries)

\* applyCrop() calls of a SpecRace session that start an image creation
MaxRaceCrops == 1

\* obs of a SpecRace step: obs.edits counts the image creations started
Raced(name) == obs' = [Obs0 EXCEPT !.op = name, !.edits = obs.edits]

\* obs of an edit made while a crop is pending: whether it changed an element
\* other than the one being cropped
Edited(name, id) ==
    obs' = [Obs0 EXCEPT !.op = name,
                        !.edits = obs.edits,
                        !.changed = /\ project' # project
                                    /\ \A i \in 1..Len(pendingCrops) : pendingCrops[i].id # id]

NextRace ==
    \/ createNewProject /\ Raced("createNewProject")
    \/ CanvasStageMount /\ Raced("CanvasStageMount")
    \/ TimerFire /\ Raced("pushState")
    \/ \E i \in 1..MaxPending : ImageLoaded(i, TRUE) /\ Raced("ImageLoaded")
    \/ \E src \in ImageSources :
          addImageElement(src, EmptyRec) /\ RoomRace /\ Raced("addImageElement")
    \/ \E id \in 1..MaxRaceIds : removeElement(<<id>>) /\ RoomRace /\ Raced("removeElement")
    \/ \E id \in 1..MaxRaceIds : setCropMode(TRUE, <<id>>) /\ Raced("setCropMode")
    \/ /\ applyCrop(TRUE)
       /\ RoomRace
       /\ pendingCrops' # pendingCrops => obs.edits < MaxRaceCrops
       /\ obs' = [Obs0 EXCEPT !.op = "applyCrop",
                              !.edits = IF pendingCrops' # pendingCrops
                                        THEN obs.edits + 1 ELSE obs.edits]
    \/ \E i \in 1..MaxPending :
          /\ CropLoaded(i)
          /\ RoomRace
          /\ obs' = [Obs0 EXCEPT !.op = "CropLoaded", !.A = pendingCrops[i],
                                 !.edits = obs.edits, !.changed = obs.changed]
    \/ \E id \in 1..MaxRaceIds, transform \in CropScales :
          pendingCrops # <<>> /\ updateTransform(id, transform) /\ Edited("updateTransform", id)
    \/ \E id \in 1..MaxRaceIds, style \in StyleInputs :
          pendingCrops # <<>> /\ updateStyle(id, style) /\ Edited("updateStyle", id)

SpecRace == Init /\ [][NextRace]_vars

\* C26: the completion of applyCrop's image creation changes only the cropped
\* element's src, transform and crop: every other element of the page, with
\* the edits made to it since applyCrop() was called, is as it was just before
C26_CropCompletionTouchesOnlyItsElement ==
    [][obs'.op = "CropLoaded" =>
          /\ Len(ElementsOf(project')) = Len(ElementsOf(project))
          /\ \A i \in 1..Len(ElementsOf(project)) :
                 IF ElementsOf(project)[i].id # obs'.A.id
                 THEN ElementsOf(project')[i] = ElementsOf(project)[i]
                 ELSE /\ DOMAIN ElementsOf(project')[i] \subseteq
                            DOMAIN ElementsOf(project)[i] \cup {"src", "transform", "crop"}
                      /\ \A f \in DOMAIN ElementsOf(project)[i] \ {"src", "transform", "crop"} :
                            ElementsOf(project')[i][f] = ElementsOf(project)[i][f]]_vars

\* a crop completed right after an edit changed another element of the page
\* while the crop was pending, and that element still has the change
C26_Witness ==
    /\ obs.op = "CropLoaded"
    /\ obs.changed
    /\ \E i \in 1..Len(getActivePageElements) :
           /\ getActivePageElements[i].id # obs.A.id
           /\ \/ getActivePageElements[i].transform.scaleX = -2
              \/ getActivePageElements[i].style.opacity = 0
    /\ \E i \in 1..Len(getActivePageElements) :
           /\ getActivePageElements[i].id = obs.A.id
           /\ getActivePageElements[i].src = CroppedDataUrl(CropRect(obs.A.bounds, obs.A.obj))

\* C27: when the cropped image was removed from the page between applyCrop()
\* and the completion of its image creation, the completion adds no render
\* object for its id, leaves the document as it is and schedules no
\* 'Crop image' history entry
C27_CropOfRemovedImageIsDropped ==
    [][(obs'.op = "CropLoaded" /\ obs'.A.id \notin IdsOf(getActivePageElements)) =>
          /\ obs'.A.id \notin MappedIds(canvasObjects')
          /\ project' = project
          /\ timers' = timers]_vars

-----------------------------------------------------------------------------
(* SpecLoad: the render bridge driven directly: init, loadPage with one of  *)
(* a few pages, and the completion of the image loads loadPage awaits       *)

\* image loads a SpecLoad session may have in flight
MaxLoadPending == 2

\* the pages handed to loadPage: an image below a text, a text alone, a text
\* below an image
LoadPages ==
    {[id |-> "page-1",
      elements |-> <<ImageElement(1, 0, CHOOSE src \in ImageSources : TRUE, EmptyRec),
                     TextElement(2, 1, EmptyRec)>>],
     [id |-> "page-2", elements |-> <<TextElement(3, 0, EmptyRec)>>],
     [id |-> "page-3",
      elements |-> <<TextElement(4, 0, EmptyRec),
                     ImageElement(5, 1, CHOOSE src \in ImageSources : TRUE, EmptyRec)>>]}

\* obs.A: the page of the latest loadPage; obs.changed: that loadPage was
\* called while an earlier one was awaiting an image load
NextLoad ==
    \/ init /\ Ran("init")
    \/ \E page \in LoadPages :
          /\ loadPage(page)
          /\ Len(pendingLoads') <= MaxLoadPending
          /\ obs' = [Obs0 EXCEPT !.op = "loadPage",
                                 !.A = IF canvasReady THEN page ELSE Null,
                                 !.changed = canvasReady /\ pendingLoads # <<>>]
    \/ \E i \in 1..MaxLoadPending, loaded \in BOOLEAN :
          ImageLoaded(i, loaded) /\ obs' = [obs EXCEPT !.op = "ImageLoaded"]

SpecLoad == Init /\ [][NextLoad]_vars

\* C28: when loadPage(P2) was called while an earlier loadPage(P1) was
\* awaiting an image load, then once every load has completed the render
\* bridge's table holds an object for exactly the elements of P2
C28_LatestLoadPageWins ==
    (obs.changed /\ pendingLoads = <<>>) =>
        MappedIds(canvasObjects) = IdsOf(obs.A.elements)

-----------------------------------------------------------------------------
(* SpecSync: the document and the render objects kept in step: transforms   *)
(* written by the store, transforms made on the canvas with the pointer,    *)
(* locking                                                                  *)

\* element ids a SpecSync session may mint
MaxSyncIds == 2
\* updateTransform calls and pointer transforms of a SpecSync session, together
MaxSyncEdits == 1

\* partial transforms handed to updateTransform
SyncTransforms == {[x |-> 10, rotation |-> 90], [width |-> 50]}

\* what the pointer does to an object: the kind of transform, the properties
\* fabric sets
Gestures ==
    {[kind |-> "moving", set |-> [left |-> 30, top |-> 40]],
     [kind |-> "rotating", set |-> [angle |-> 45]],
     [kind |-> "scaling", set |-> [scaleX |-> 3, scaleY |-> 3]]}

RoomSync == RoomFor(MaxSyncIds, MaxEntries)

\* obs of a SpecSync step: obs.edits counts the transforms made so far
Synced(name) == obs' = [Obs0 EXCEPT !.op = name, !.edits = obs.edits]

NextSync ==
    \/ createNewProject /\ Synced("createNewProject")
    \/ CanvasStageMount /\ Synced("CanvasStageMount")
    \/ TimerFire /\ Synced("pushState")
    \/ \E i \in 1..MaxPending : ImageLoaded(i, TRUE) /\ Synced("ImageLoaded")
    \/ \E st \in ShapeTypes :
          addShapeElement(st, EmptyRec) /\ RoomSync /\ Synced("addShapeElement")
    \/ \E src \in ImageSources :
          addImageElement(src, EmptyRec) /\ RoomSync /\ Synced("addImageElement")
    \/ \E id \in 1..MaxSyncIds : removeElement(<<id>>) /\ RoomSync /\ Synced("removeElement")
    \/ \E id \in 1..MaxSyncIds : lockElement(id) /\ Synced("lockElement")
    \/ \E id \in 1..MaxSyncIds : unlockElement(id) /\ Synced("unlockElement")
    \/ \E id \in 1..MaxSyncIds, transform \in SyncTransforms :
          /\ obs.edits < MaxSyncEdits
          /\ updateTransform(id, transform)
          /\ obs' = [Obs0 EXCEPT !.op = "updateTransform", !.edits = obs.edits + 1,
                                 !.entry = id, !.B = transform]
    \/ \E i \in 1..MaxSyncIds, gesture \in Gestures :
          /\ obs.edits < MaxSyncEdits
          /\ ObjectTransformed(i, gesture)
          /\ obs' = [Obs0 EXCEPT !.op = "ObjectTransformed", !.edits = obs.edits + 1,
                                 !.entry = canvasObjects[i].id, !.B = gesture]

SpecSync == Init /\ [][NextSync]_vars

\* the property of a fabric object that holds transform field f
ObjectField(f) ==
    IF \E k \in DOMAIN FabricProp : FabricProp[k] = f
    THEN CHOOSE k \in DOMAIN FabricProp : FabricProp[k] = f
    ELSE f

\* C32: after updateTransform(id, partial) on an element that has a render
\* object, every transform property supplied in partial has the same value
\* on the render object as on the element
C32_TransformReachesRenderObject ==
    (obs.op = "updateTransform" /\ MappedIndex(canvasObjects, obs.entry) # 0
        /\ FindIndex(getActivePageElements, obs.entry) # 0) =>
        \A f \in DOMAIN obs.B :
            /\ ObjectField(f) \in DOMAIN canvasObjects[MappedIndex(canvasObjects, obs.entry)]
            /\ canvasObjects[MappedIndex(canvasObjects, obs.entry)][ObjectField(f)] =
                  getActivePageElements[FindIndex(getActivePageElements, obs.entry)].transform[f]

\* C33: handling the notification of a pointer transform of the object of
\* element id writes only the transform fields x, y, scaleX, scaleY and
\* rotation of that element: the render objects keep what the pointer left
\* on them, every other element, the selection and the history are as they
\* were, and nothing changes when id has no render object in the table or no
\* element on the active page
C33_NotificationWritesOnlyTransform ==
    [][obs'.op = "ObjectTransformed" =>
          /\ UNCHANGED <<selectedIds, clipboard, past, future, timers>>
          /\ Len(canvasObjects') = Len(canvasObjects)
          /\ \A j \in 1..Len(canvasObjects) :
                 \A k \in (DOMAIN canvasObjects[j]) \ (DOMAIN obs'.B.set) :
                    canvasObjects'[j][k] = canvasObjects[j][k]
          /\ Len(ElementsOf(project')) = Len(ElementsOf(project))
          /\ \A i \in 1..Len(ElementsOf(project)) :
                 IF ElementsOf(project)[i].id # obs'.entry
                 THEN ElementsOf(project')[i] = ElementsOf(project)[i]
                 ELSE /\ \A f \in (DOMAIN ElementsOf(project)[i]) \ {"transform"} :
                            ElementsOf(project')[i][f] = ElementsOf(project)[i][f]
                      /\ \A f \in (DOMAIN ElementsOf(project)[i].transform)
                                    \ {"x", "y", "scaleX", "scaleY", "rotation"} :
                            ElementsOf(project')[i].transform[f] =
                               ElementsOf(project)[i].transform[f]
          /\ (\/ MappedIndex(canvasObjects', obs'.entry) = 0
              \/ FindIndex(ElementsOf(project), obs'.entry) = 0) => project' = project]_vars

\* the pointer moved the object of one of two elements of the page, and the
\* element has the object's new position
C33_Witness ==
    /\ obs.op = "ObjectTransformed"
    /\ Len(getActivePageElements) = 2
    /\ \E i \in 1..Len(getActivePageElements) :
           /\ getActivePageElements[i].id = obs.entry
           /\ getActivePageElements[i].transform.x = 30
           /\ getActivePageElements[i].transform.y = 40

\* C34: while an element is locked, no notification of a pointer transform
\* changes its transform in the document
C34_LockedTransformIsFrozen ==
    [][obs'.op = "ObjectTransformed" =>
          \A i \in 1..Len(ElementsOf(project)) :
             ElementsOf(project)[i].locked =>
                /\ i <= Len(ElementsOf(project'))
                /\ ElementsOf(project')[i].transform = ElementsOf(project)[i].transform]_vars

-----------------------------------------------------------------------------
(* SpecPick: select called with lists of ids, with and without repeats      *)

\* ids a SpecPick session selects
MaxPickIds == 2
\* length of the lists handed to select
MaxPickLen == 2

\* the lists of ids handed to select
IdLists == UNION {[1..n -> 1..MaxPickIds] : n \in 0..MaxPickLen}

\* obs.run: the selection before the call; obs.copied: the ids passed;
\* obs.changed: addToSelection
NextPick ==
    \E ids \in IdLists, addToSelection \in BOOLEAN :
       /\ select(ids, addToSelection)
       /\ obs' = [Obs0 EXCEPT !.op = "select", !.run = selectedIds, !.copied = ids,
                              !.changed = addToSelection]

SpecPick == Init /\ [][NextPick]_vars

\* C35: after select(ids, addToSelection), whatever the list of ids,
\* selectedIds holds no id more than once; with addToSelection it is the
\* previous selection followed by the ids that were not selected before
C35_SelectionHasNoRepeats ==
    obs.op = "select" =>
        /\ \A i, j \in 1..Len(selectedIds) : selectedIds[i] = selectedIds[j] => i = j
        /\ obs.changed =>
              selectedIds = obs.run \o SelectSeq(obs.copied, LAMBDA i : ~Includes(obs.run, i))

-----------------------------------------------------------------------------
(* SpecOpts: elements created with options that give part of a transform or *)
(* part of a style                                                           *)

\* ids a SpecOpts session mints
MaxOptIds == 2
\* history entries a SpecOpts session may record
MaxOptEntries == 2

\* options handed to addTextElement / addImageElement / addShapeElement
PartialOptions ==
    {EmptyRec,
     [transform |-> [x |-> 10]],
     [style |-> [opacity |-> 0]],
     [transform |-> [width |-> 50, rotation |-> 90], style |-> [fill |-> "#ff0000"]]}

\* the defaults each type of element starts from
TypeDefaults ==
    [text  |-> [transform |-> createDefaultTransform,
                style |-> Spread(createDefaultStyle, [fill |-> "#1a1a1a"])],
     image |-> [transform |-> Spread(createDefaultTransform, [width |-> 200, height |-> 200]),
                style |-> Spread(createDefaultStyle, [fill |-> NullStr])],
     shape |-> [transform |-> createDefaultTransform,
                style |-> Spread(createDefaultStyle, [fill |-> "#4A90D9"])]]

\* obs.B: the options of the call; obs.entry: the id it returns
Opted(name, options) ==
    /\ RoomFor(MaxOptIds, MaxOptEntries)
    /\ obs' = [Obs0 EXCEPT !.op = name, !.B = options, !.entry = nextId']

NextOpts ==
    \/ createNewProject /\ RoomFor(MaxOptIds, MaxOptEntries) /\ Ran("createNewProject")
    \/ TimerFire /\ RoomFor(MaxOptIds, MaxOptEntries) /\ Ran("pushState")
    \/ \E options \in PartialOptions :
          addTextElement(options) /\ Opted("addTextElement", options)
    \/ \E src \in ImageSources, options \in PartialOptions :
          addImageElement(src, options) /\ Opted("addImageElement", options)
    \/ \E st \in ShapeTypes, options \in PartialOptions :
          addShapeElement(st, options) /\ Opted("addShapeElement", options)

SpecOpts == Init /\ [][NextOpts]_vars

\* C36: the element addTextElement / addImageElement / addShapeElement creates
\* from options with a partial transform or style has, as transform and as
\* style, the defaults of its type with the supplied fields written over them
C36_PartialOptionsKeepDefaults ==
    (obs.op \in AddOps /\ project # Null) =>
        LET el == getActivePageElements[Len(getActivePageElements)]
        IN /\ el.id = obs.entry
           /\ el.transform = Spread(TypeDefaults[el.type].transform, PartOf(obs.B, "transform"))
           /\ el.style = Spread(TypeDefaults[el.type].style, PartOf(obs.B, "style"))

-----------------------------------------------------------------------------
(* SpecPaste: several elements selected, copied and pasted, onto the page   *)
(* they came from, after some were removed, and onto a new project          *)

\* ids a SpecPaste session mints
MaxPasteIds == 4
\* history entries a SpecPaste session may record
MaxPasteEntries == 2
\* elements a SpecPaste session adds (the others are pasted)
MaxPasteAdds == 2

RoomPaste == RoomFor(MaxPasteIds, MaxPasteEntries)

\* obs.edits: the elements added so far
Pasting(name, edits) == RoomPaste /\ obs' = [Obs0 EXCEPT !.op = name, !.edits = edits]

NextPaste ==
    \/ createNewProject /\ Pasting("createNewProject", obs.edits)
    \/ TimerFire /\ Pasting("pushState", obs.edits)
    \/ /\ obs.edits < MaxPasteAdds
       /\ addTextElement(EmptyRec)
       /\ Pasting("addTextElement", obs.edits + 1)
    \/ \E st \in ShapeTypes :
          /\ obs.edits < MaxPasteAdds
          /\ addShapeElement(st, EmptyRec)
          /\ Pasting("addShapeElement", obs.edits + 1)
    \/ \E id \in 1..MaxPasteAdds : removeElement(<<id>>) /\ Pasting("removeElement", obs.edits)
    \/ \E id \in 1..MaxPasteAdds, addToSelection \in BOOLEAN :
          select(<<id>>, addToSelection) /\ Pasting("select", obs.edits)
    \/ copy /\ Pasting("copy", obs.edits)
    \/ paste /\ Pasting("paste", obs.edits)

SpecPaste == Init /\ [][NextPaste]_vars

\* an element less the fields paste writes
LessPasted(el) == Spread(el, [id |-> NoId, zIndex |-> 0, transform |-> Null])

-----------------------------------------------------------------------------
(* SpecDup: duplicateElements called on the selection and on lists of ids,  *)
(* with ids that name no element and ids given twice                        *)

\* ids a SpecDup session mints
MaxDupIds == 4
\* history entries a SpecDup session may record
MaxDupEntries == 3
\* elements a SpecDup session adds (the others are duplicates)
MaxDupAdds == 2

RoomDup == RoomFor(MaxDupIds, MaxDupEntries)

\* obs.edits: the elements added so far
Duping(name, edits) == RoomDup /\ obs' = [Obs0 EXCEPT !.op = name, !.edits = edits]

\* argument lists of duplicateElements: none, or one list of ids
DuplicateArgs == {<<>>} \cup {<<ids>> : ids \in IdLists}

\* obs.copied: the ids the call targets; obs.changed: ids were given
NextDup ==
    \/ createNewProject /\ Duping("createNewProject", obs.edits)
    \/ TimerFire /\ Duping("pushState", obs.edits)
    \/ /\ obs.edits < MaxDupAdds
       /\ addTextElement(EmptyRec)
       /\ Duping("addTextElement", obs.edits + 1)
    \/ \E id \in 1..MaxPickIds, addToSelection \in BOOLEAN :
          select(<<id>>, addToSelection) /\ Duping("select", obs.edits)
    \/ \E args \in DuplicateArgs :
          /\ duplicateElements(args)
          /\ RoomDup
          /\ obs' = [Obs0 EXCEPT !.op = "duplicateElements", !.edits = obs.edits,
                                 !.copied = IF Len(args) = 0 THEN selectedIds ELSE args[1],
                                 !.changed = Len(args) > 0]

SpecDup == Init /\ [][NextDup]_vars

-----------------------------------------------------------------------------
(* SpecMode: setCropMode(true, id) with ids of images, of texts and of no   *)
(* element, in and out of a crop session, and cancelCrop                    *)

\* ids a SpecMode session mints
MaxModeIds == 2
\* history entries a SpecMode session may record
MaxModeEntries == 2

RoomMode == RoomFor(MaxModeIds, MaxModeEntries)

\* the ids handed to setCropMode: of elements, of no element, and ''
ModeIds == 1..(MaxModeIds + 1) \cup {EmptyStringId}

\* obs.entry: the id passed; obs.before: the crop session cancelCrop ended
Moded(name, id) == RoomMode /\ obs' = [Obs0 EXCEPT !.op = name, !.entry = id]

NextMode ==
    \/ createNewProject /\ Moded("createNewProject", NoId)
    \/ TimerFire /\ Moded("pushState", NoId)
    \/ \E src \in ImageSources : addImageElement(src, EmptyRec) /\ Moded("addImageElement", NoId)
    \/ addTextElement(EmptyRec) /\ Moded("addTextElement", NoId)
    \/ \E id \in 1..MaxModeIds, transform \in CropScales :
          updateTransform(id, transform) /\ Moded("updateTransform", id)
    \/ \E id \in ModeIds : setCropMode(TRUE, <<id>>) /\ Moded("setCropMode", id)
    \/ \E bounds \in CropBoundsInputs : setCropBounds(bounds) /\ Moded("setCropBounds", NoId)
    \/ /\ cancelCrop
       /\ RoomMode
       /\ obs' = [Obs0 EXCEPT !.op = "cancelCrop",
                              !.before = [cropMode |-> cropMode, cropBounds |-> cropBounds,
                                          cropElementId |-> cropElementId]]
    \/ CanvasStageMount /\ Moded("CanvasStageMount", NoId)
    \/ \E i \in 1..MaxPending : ImageLoaded(i, TRUE) /\ Moded("ImageLoaded", NoId)

SpecMode == Init /\ [][NextMode]_vars

\* C39: setCropMode(true, id) with the id of an image of the active page
\* sets cropMode, cropElementId = id and cropBounds = the rectangle of width
\* width * |scaleX| and height height * |scaleY| whose centre is the
\* element's (x, y); with any other id it changes nothing
C39_CropModeOnlyForImages ==
    [][obs'.op = "setCropMode" =>
          LET id == obs'.entry
              k == FindIndex(getActivePageElements, id)
              t == getActivePageElements[k].transform
          IN IF k # 0 /\ getActivePageElements[k].type = "image"
             THEN /\ cropMode'
                  /\ cropElementId' = id
                  /\ cropBounds'.width = t.width * Abs(t.scaleX)
                  /\ cropBounds'.height = t.height * Abs(t.scaleY)
                  /\ 2 * cropBounds'.x + cropBounds'.width = 2 * t.x
                  /\ 2 * cropBounds'.y + cropBounds'.height = 2 * t.y
                  /\ UNCHANGED <<storeVars, historyVars, fabricVars, timers, nextId>>
             ELSE UNCHANGED progVars]_vars

\* C40: cancelCrop, whatever the crop session and whatever setCropBounds
\* made of its bounds, leaves cropMode = false, cropBounds = null and
\* cropElementId = null, and leaves the document, the render objects, the
\* selection and the history stacks as they were
C40_CancelCropOnlyEndsSession ==
    [][obs'.op = "cancelCrop" =>
          /\ ~cropMode'
          /\ cropBounds' = Null
          /\ cropElementId' = NoId
          /\ UNCHANGED <<project, selectedIds, canvasObjects, past, future>>]_vars

\* a session on an image that is on the canvas, its bounds replaced by
\* setCropBounds, was cancelled
C40_Witness ==
    /\ obs.op = "cancelCrop"
    /\ obs.before.cropMode
    /\ obs.before.cropElementId \in IdsOf(getActivePageElements)
    /\ obs.before.cropBounds = [x |-> 50, y |-> 50, width |-> 100, height |-> 100]
    /\ \E i \in 1..Len(canvasObjects) : canvasObjects[i].id = obs.before.cropElementId
    /\ ~cropMode
    /\ past # <<>>

=============================================================================
